---- MODULE Spec2Model ----
(***************************************************************************)
(* Model of the MCOA command center: the run correlator of src/app.py      *)
(* (handle_query.process_query, handle_clear, emit_tool_event), the        *)
(* monitor_tool wrapper of src/tools/monitoring.py, the feasibility        *)
(* aggregator of src/tools/s3_operations.py, the decision package of       *)
(* src/tools/report_generation.py, MCOAService.process_query with the      *)
(* guardrails of src/guardrails.py, alone and called concurrently, and     *)
(* handle_frago_processing of src/app.py.                                  *)
(*                                                                         *)
(* Wall-clock values (time.time(), datetime.now()) are abstracted: a time  *)
(* stamp is the token "ts", and the payload of an event (its parameters,   *)
(* duration, result or error text) is the serial number of the event, so   *)
(* that two events never carry the same payload.                           *)
(***************************************************************************)
EXTENDS Integers, Sequences, FiniteSets, TLC

\* ------------------------------------------------------------- bounds
MaxWorkers == 2     \* query worker threads started by handle_query
MaxEvents == 2      \* tool events of one behaviour of the concurrent queries (Spec)
MaxEmit == 3        \* tool events of one behaviour of a single query (SpecEmit)

None == "None"      \* Python's None, and a key that a dict does not hold

\* Thread 0 is the socket handler thread (it runs handle_clear and carries no
\* run id); threads 1..MaxWorkers are the workers started by handle_query.
HandlerThread == 0
Workers == 1..MaxWorkers
Threads == {HandlerThread} \cup Workers

\* str(uuid.uuid4()): a fresh token for each query, made from the worker's number.
uuid4(t) == "run-" \o ToString(t)
RunIds == {uuid4(t) : t \in Workers}

\* Names of monitored tools and the section the decorator gives each.
ToolNames == {"get_weather_conditions", "check_supply_inventory"}
\* The tool the concurrent queries of Spec call: attribution reads no tool name.
QueryTools == {"get_weather_conditions"}

section(tool_name) ==
    CASE tool_name = "get_weather_conditions" -> "S-2"
      [] tool_name = "check_supply_inventory" -> "S-4"

ToolEventTypes == {"tool_start", "tool_complete", "tool_error"}

VARIABLES
    pc,             \* position of each thread in process_query
    thread_local,   \* thread_local.run_id of each thread (None: not set)
    run_histories,  \* run_id -> run record
    mcoa_service,   \* the global service instance (None before init_service)
    tool_callback,  \* tools.monitoring._tool_callback
    tool_stats,     \* the global statistics record
    emitted,        \* per worker: the query events process_query has emitted, in order
    nevents,        \* number of tool events so far (the serial of the next payload)
    \* --- monitor_tool on its own (SpecWrapper)
    w,
    \* --- compute_operation_feasibility on its own (SpecFeasibility)
    f,
    \* --- generate_decision_package on its own (SpecPackage)
    pkg,
    \* --- MCOAService.process_query on its own (SpecService)
    svc,
    \* --- concurrent calls on the one MCOAService (SpecShared)
    shared,
    \* --- handle_frago_processing (SpecFrago)
    frago

corrVars == <<pc, thread_local, run_histories, mcoa_service, tool_callback,
              tool_stats, emitted, nevents>>
vars == <<pc, thread_local, run_histories, mcoa_service, tool_callback,
          tool_stats, emitted, nevents, w, f, pkg, svc, shared, frago>>

\* ------------------------------------------------ src/app.py: state
\* tool_stats as built at import (app.py:61-69) and by handle_clear (206-214).
\* Only the fields that decide control flow are kept: the section counters and
\* the response times are written and never read by the code modelled here.
ZeroStats(session) == [total_calls |-> 0, session_start |-> session]

\* The dict appended on tool_start (app.py:263-268); `by` is a history field:
\* the threads whose calls of emit_tool_event wrote the entry.
StartEntry(t, data) ==
    [tool_name |-> data.tool_name, section |-> data.section,
     parameters |-> data.payload, start_ts |-> "ts",
     duration |-> None, result |-> None, end_ts |-> None, error |-> None,
     by |-> {t}]

\* The dict appended on tool_error (app.py:278-285).
ErrorEntry(t, data) ==
    [tool_name |-> data.tool_name, section |-> data.section,
     parameters |-> None, start_ts |-> "ts",
     duration |-> data.payload, result |-> None, end_ts |-> "ts",
     error |-> data.payload,
     by |-> {t}]

\* Faulty variant of LastUnmatched: the scan runs forward and stops at the first match.
FirstUnmatched(tools, tool_name) ==
    LET S == {i \in 1..Len(tools) :
                 tools[i].tool_name = tool_name /\ tools[i].duration = None}
    IN IF S = {} THEN 0 ELSE CHOOSE i \in S : \A j \in S : i <= j

\* `for t in reversed(tools)`: the index of the last entry with the same
\* tool_name and no 'duration' key, 0 when there is none (app.py:271-272).
LastUnmatched(tools, tool_name) ==
    LET S == {i \in 1..Len(tools) :
                 tools[i].tool_name = tool_name /\ tools[i].duration = None}
    IN IF S = {} THEN 0 ELSE CHOOSE i \in S : \A j \in S : j <= i

\* app.py:269-276
CompleteTools(t, tools, data) ==
    LET i == LastUnmatched(tools, data.tool_name)
    IN IF i = 0 THEN tools
       ELSE [tools EXCEPT ![i] = [@ EXCEPT !.duration = data.payload,
                                           !.result = data.payload,
                                           !.end_ts = "ts",
                                           !.by = @ \cup {t}]]

\* Faulty variant of RecordTools: a new entry is put at the head of the list.
RecordToolsPrepend(t, tools, event_type, data) ==
    CASE event_type = "tool_start" -> <<StartEntry(t, data)>> \o tools
      [] event_type = "tool_complete" -> CompleteTools(t, tools, data)
      [] event_type = "tool_error" -> <<ErrorEntry(t, data)>> \o tools
      [] OTHER -> tools

\* app.py:262-285: the tools list after one event.
RecordTools(t, tools, event_type, data) ==
    CASE event_type = "tool_start" -> Append(tools, StartEntry(t, data))
      [] event_type = "tool_complete" -> CompleteTools(t, tools, data)
      [] event_type = "tool_error" -> Append(tools, ErrorEntry(t, data))
      [] OTHER -> tools

\* Faulty variant of CurrentRunId: the run id is kept in one slot shared by all threads
\* (here: the id bound by the highest-numbered thread that has one).
SharedRunId(t) ==
    LET B == {u \in Threads : thread_local[u] # None}
    IN IF B = {} THEN None
       ELSE thread_local[CHOOSE u \in B : \A v \in B : v <= u]

\* getattr(thread_local, 'run_id', None) on the calling thread (app.py:258).
CurrentRunId(t) == thread_local[t]

\* Faulty variant of RecordEvent: with no run bound, the event goes to some open run.
RecordEventFallback(t, event_type, data) ==
    LET run_id == IF CurrentRunId(t) # None THEN CurrentRunId(t)
                  ELSE IF DOMAIN run_histories = {} THEN None
                  ELSE CHOOSE r \in DOMAIN run_histories : TRUE
    IN IF run_id # None /\ run_id \in DOMAIN run_histories
       THEN [run_histories EXCEPT ![run_id].tools =
                 RecordTools(t, @, event_type, data)]
       ELSE run_histories

\* app.py:257-286: run_histories after the event.
RecordEvent(t, event_type, data) ==
    LET run_id == CurrentRunId(t)
    IN IF run_id # None /\ run_id \in DOMAIN run_histories
       THEN [run_histories EXCEPT ![run_id].tools =
                 RecordTools(t, @, event_type, data)]
       ELSE run_histories

\* emit_tool_event(event_type, data) called on thread t (app.py:243-289). The
\* socket emission of line 289 changes no state of the program.
emit_tool_event(t, event_type, data) ==
    run_histories' = RecordEvent(t, event_type, data)

\* The data of a tool event as monitor_tool builds it (tools/monitoring.py:27-80).
ToolData(tool_name) ==
    [tool_name |-> tool_name, section |-> section(tool_name),
     payload |-> ToString(nevents + 1)]

\* The data of the service's own events: no tool_name, no section (mcoa_service.py:187).
ServiceData == [tool_name |-> None, section |-> None, payload |-> None]

\* ------------------------------------------- src/app.py: operations
NewRun(t) ==
    [run_id |-> uuid4(t), query |-> ToString(t), start_time |-> "ts", tools |-> <<>>,
     response_preview |-> None, response_time |-> None, end_time |-> None]

\* init_service (app.py:53-58) and MCOAService.__init__ (mcoa_service.py:130-147):
\* the service is created and sets the tools' callback.
InitService ==
    /\ mcoa_service' = "MCOAService"
    /\ tool_callback' = "emit_tool_event"

\* handle_query (app.py:114-190): a thread is started for the query.
HandleQuery(t) ==
    /\ pc[t] = "idle"
    /\ pc' = [pc EXCEPT ![t] = "prepare"]
    /\ UNCHANGED <<thread_local, run_histories, mcoa_service, tool_callback,
                   tool_stats, emitted, nevents>>

\* process_query, app.py:124-130.
Prepare(t) ==
    /\ pc[t] = "prepare"
    /\ InitService
    /\ tool_stats' = IF tool_stats.session_start = None
                     THEN [tool_stats EXCEPT !.session_start = "ts"]
                     ELSE tool_stats
    /\ pc' = [pc EXCEPT ![t] = "bind"]
    /\ UNCHANGED <<thread_local, run_histories, emitted, nevents>>

\* app.py:132-135.
Bind(t) ==
    /\ pc[t] = "bind"
    /\ thread_local' = [thread_local EXCEPT ![t] = uuid4(t)]
    /\ pc' = [pc EXCEPT ![t] = "create"]
    /\ UNCHANGED <<run_histories, mcoa_service, tool_callback, tool_stats,
                   emitted, nevents>>

\* app.py:136-145: the run record is created, query_status is emitted.
Create(t) ==
    /\ pc[t] = "create"
    /\ run_histories' = [r \in DOMAIN run_histories \cup {uuid4(t)} |->
                            IF r = uuid4(t) THEN NewRun(t) ELSE run_histories[r]]
    /\ emitted' = [emitted EXCEPT ![t] = Append(@, "query_status")]
    /\ pc' = [pc EXCEPT ![t] = "agent"]

            /\ UNCHANGED <<thread_local, mcoa_service, tool_callback, tool_stats, nevents>>

\* app.py:148 entering MCOAService.process_query, which calls the callback
\* with processing_start (mcoa_service.py:184-187).
AgentStart(t) ==
    /\ pc[t] = "agent"
    /\ emit_tool_event(t, "processing_start", ServiceData)
    /\ pc' = [pc EXCEPT ![t] = "run"]
    /\ UNCHANGED <<thread_local, mcoa_service, tool_callback, tool_stats,
                   emitted, nevents>>

\* A monitored tool, run on thread t, calls the callback (tools/monitoring.py:26-80).
\* On a worker this happens inside the agent run; the handler thread stands for
\* every thread that carries no run id.
ToolEvent(t, event_type, tool_name) ==
    /\ \/ pc[t] = "run"
       \/ t = HandlerThread
    /\ tool_callback # None
    /\ emit_tool_event(t, event_type, ToolData(tool_name))
    /\ nevents' = nevents + 1

            /\ UNCHANGED <<pc, thread_local, mcoa_service, tool_callback, tool_stats, emitted>>

\* MCOAService.process_query returns its result dict after calling the callback
\* with event_type, one of processing_complete, guardrail_triggered and
\* processing_error (mcoa_service.py:218-264).
AgentReturn(t, event_type) ==
    /\ pc[t] = "run"
    /\ emit_tool_event(t, event_type, ServiceData)
    /\ pc' = [pc EXCEPT ![t] = "stats_calls"]
    /\ UNCHANGED <<thread_local, mcoa_service, tool_callback, tool_stats,
                   emitted, nevents>>

\* asyncio.run(...) raises instead of returning (app.py:148 to 177).
AgentRaise(t) ==
    /\ pc[t] = "run"
    /\ pc' = [pc EXCEPT ![t] = "except"]
    /\ UNCHANGED <<thread_local, run_histories, mcoa_service, tool_callback,
                   tool_stats, emitted, nevents>>

\* app.py:151-153.
StatsCalls(t) ==
    /\ pc[t] = "stats_calls"
    /\ tool_stats' = [tool_stats EXCEPT !.total_calls = @ + 1]
    /\ pc' = [pc EXCEPT ![t] = "stats_avg"]
    /\ UNCHANGED <<thread_local, run_histories, mcoa_service, tool_callback,
                   emitted, nevents>>

\* app.py:154-166: the division raises ZeroDivisionError when total_calls is 0;
\* otherwise query_response and stats_update are emitted.
StatsAvg(t) ==
    /\ pc[t] = "stats_avg"
    /\ IF tool_stats.total_calls = 0
       THEN /\ pc' = [pc EXCEPT ![t] = "except"]
            /\ UNCHANGED emitted
       ELSE /\ pc' = [pc EXCEPT ![t] = "summary"]
            /\ emitted' = [emitted EXCEPT ![t] = @ \o <<"query_response", "stats_update">>]
    /\ UNCHANGED <<thread_local, run_histories, mcoa_service, tool_callback,
                   tool_stats, nevents>>

\* Faulty variant of CloseRun: the update leaves end_time out.
CloseRunNoEndTime(run) ==
    [run EXCEPT !.response_preview = "preview", !.response_time = "rt"]

\* app.py:170-174: summary.update(...) on the run's record.
CloseRun(run) ==
    [run EXCEPT !.response_preview = "preview", !.response_time = "rt",
                !.end_time = "ts"]

\* app.py:168-175: the record of the run is closed and emitted as run_summary.
Summary(t) ==
    /\ pc[t] = "summary"
    /\ run_histories' = IF uuid4(t) \in DOMAIN run_histories
                        THEN [run_histories EXCEPT ![uuid4(t)] = CloseRun(@)]
                        ELSE run_histories
    /\ emitted' = [emitted EXCEPT ![t] = Append(@, "run_summary")]
    /\ pc' = [pc EXCEPT ![t] = "finally"]

            /\ UNCHANGED <<thread_local, mcoa_service, tool_callback, tool_stats, nevents>>

\* app.py:177-179.
Except(t) ==
    /\ pc[t] = "except"
    /\ emitted' = [emitted EXCEPT ![t] = Append(@, "query_error")]
    /\ pc' = [pc EXCEPT ![t] = "finally"]
    /\ UNCHANGED <<thread_local, run_histories, mcoa_service, tool_callback,
                   tool_stats, nevents>>

\* Faulty variant of Unbind: the finally block leaves the run id on the thread.
UnbindNothing(t) == thread_local

\* `del thread_local.run_id` (app.py:183).
Unbind(t) == [thread_local EXCEPT ![t] = None]

\* app.py:180-185.
Finally(t) ==
    /\ pc[t] = "finally"
    /\ thread_local' = Unbind(t)
    /\ pc' = [pc EXCEPT ![t] = "done"]
    /\ UNCHANGED <<run_histories, mcoa_service, tool_callback, tool_stats,
                   emitted, nevents>>

\* handle_clear (app.py:193-217) on the handler thread: clear_history calls the
\* callback with history_cleared (mcoa_service.py:279-286), then tool_stats is
\* replaced by a zeroed record.
HandleClear ==
    /\ InitService
    /\ emit_tool_event(HandlerThread, "history_cleared", ServiceData)
    /\ tool_stats' = ZeroStats("ts")
    /\ UNCHANGED <<pc, thread_local, emitted, nevents>>

WInit0 == [pc |-> "off"]
FInit0 == [pc |-> "off"]
PkgInit0 == [pc |-> "off"]
SvcInit0 == [pc |-> "off"]
SharedInit0 == [pc |-> "off"]
FragoInit0 == [pc |-> "off"]

\* The correlator at rest: the state of src/app.py after import.
InitCorrelator ==
    /\ pc = [t \in Threads |-> IF t = HandlerThread THEN "handler" ELSE "idle"]
    /\ thread_local = [t \in Threads |-> None]
    /\ run_histories = <<>>
    /\ mcoa_service = None
    /\ tool_callback = None
    /\ tool_stats = ZeroStats(None)
    /\ emitted = [t \in Workers |-> <<>>]
    /\ nevents = 0

Init ==
    /\ InitCorrelator
    /\ w = WInit0
    /\ f = FInit0
    /\ pkg = PkgInit0
    /\ svc = SvcInit0
    /\ shared = SharedInit0
    /\ frago = FragoInit0

Next ==
    \/ \E t \in Workers : HandleQuery(t) /\ UNCHANGED <<w, f, pkg, svc, shared, frago>>
    \/ \E t \in Workers : Prepare(t) /\ UNCHANGED <<w, f, pkg, svc, shared, frago>>
    \/ \E t \in Workers : Bind(t) /\ UNCHANGED <<w, f, pkg, svc, shared, frago>>
    \/ \E t \in Workers : Create(t) /\ UNCHANGED <<w, f, pkg, svc, shared, frago>>
    \/ \E t \in Workers : AgentStart(t) /\ UNCHANGED <<w, f, pkg, svc, shared, frago>>
    \/ \E t \in Threads, e \in ToolEventTypes, n \in QueryTools :
           nevents < MaxEvents /\ ToolEvent(t, e, n)
                   /\ UNCHANGED <<w, f, pkg, svc, shared, frago>>
    \/ \E t \in Workers, e \in {"processing_complete", "guardrail_triggered",
                                 "processing_error"} :
           AgentReturn(t, e) /\ UNCHANGED <<w, f, pkg, svc, shared, frago>>
    \/ \E t \in Workers : AgentRaise(t) /\ UNCHANGED <<w, f, pkg, svc, shared, frago>>
    \/ \E t \in Workers : StatsCalls(t) /\ UNCHANGED <<w, f, pkg, svc, shared, frago>>
    \/ \E t \in Workers : StatsAvg(t) /\ UNCHANGED <<w, f, pkg, svc, shared, frago>>
    \/ \E t \in Workers : Summary(t) /\ UNCHANGED <<w, f, pkg, svc, shared, frago>>
    \/ \E t \in Workers : Except(t) /\ UNCHANGED <<w, f, pkg, svc, shared, frago>>
    \/ \E t \in Workers : Finally(t) /\ UNCHANGED <<w, f, pkg, svc, shared, frago>>
    \/ HandleClear /\ UNCHANGED <<w, f, pkg, svc, shared, frago>>

Spec == Init /\ [][Next]_vars

\* One query on its own, its agent run delivering any sequence of tool events.
FirstWorker == HandlerThread + 1

NextEmit ==
    \/ HandleQuery(FirstWorker) /\ UNCHANGED <<w, f, pkg, svc, shared, frago>>
    \/ Prepare(FirstWorker) /\ UNCHANGED <<w, f, pkg, svc, shared, frago>>
    \/ Bind(FirstWorker) /\ UNCHANGED <<w, f, pkg, svc, shared, frago>>
    \/ Create(FirstWorker) /\ UNCHANGED <<w, f, pkg, svc, shared, frago>>
    \/ AgentStart(FirstWorker) /\ UNCHANGED <<w, f, pkg, svc, shared, frago>>
    \/ \E e \in ToolEventTypes, n \in ToolNames :
           nevents < MaxEmit /\ ToolEvent(FirstWorker, e, n)
                   /\ UNCHANGED <<w, f, pkg, svc, shared, frago>>
    \/ \E e \in {"processing_complete", "guardrail_triggered", "processing_error"} :
           AgentReturn(FirstWorker, e) /\ UNCHANGED <<w, f, pkg, svc, shared, frago>>
    \/ AgentRaise(FirstWorker) /\ UNCHANGED <<w, f, pkg, svc, shared, frago>>
    \/ StatsCalls(FirstWorker) /\ UNCHANGED <<w, f, pkg, svc, shared, frago>>
    \/ StatsAvg(FirstWorker) /\ UNCHANGED <<w, f, pkg, svc, shared, frago>>
    \/ Summary(FirstWorker) /\ UNCHANGED <<w, f, pkg, svc, shared, frago>>
    \/ Except(FirstWorker) /\ UNCHANGED <<w, f, pkg, svc, shared, frago>>
    \/ Finally(FirstWorker) /\ UNCHANGED <<w, f, pkg, svc, shared, frago>>

SpecEmit == Init /\ [][NextEmit]_vars

\* ---------------------------------- src/tools/monitoring.py: monitor_tool
\* One call of a tool wrapped by monitor_tool('get_weather_conditions', 'S-2').
\* A string is a sequence of characters, so that slicing is modelled as done.
MaxArgs == 2        \* positional arguments of the call

Min(a, b) == IF a <= b THEN a ELSE b

\* s[:n]
Truncate(s, n) == SubSeq(s, 1, Min(Len(s), n))

Repeat(c, n) == [i \in 1..n |-> c]

\* str(arg)[:100] for each argument (monitoring.py:31).
Parameters(args) == [i \in 1..Len(args) |-> Truncate(args[i], 100)]

\* Argument values: a short string and one longer than the cut of 100.
ArgValues == {<<"3", "8", "S">>, Repeat("x", 101)}
ArgLists == UNION {[1..n -> ArgValues] : n \in 0..MaxArgs}

NoResult == [kind |-> "none", fields |-> <<>>, items |-> <<>>, text |-> <<>>]

\* What the tools of the repository return: a pydantic model (it has .dict()),
\* a dict, a list, and for the last branch a plain string.
ToolResults ==
    {[kind |-> "model", fields |-> <<"MREs", "850">>, items |-> <<>>, text |-> <<>>],
     [kind |-> "dict", fields |-> <<"wind", "12">>, items |-> <<>>, text |-> <<>>],
     [kind |-> "list", fields |-> <<>>, items |-> <<"p1", "p2">>, text |-> <<>>],
     [kind |-> "str", fields |-> <<>>, items |-> <<>>, text |-> Repeat("y", 501)]}

ToolExceptions == {"ValueError: bad grid", "KeyError: unit"}

\* monitoring.py:42-51: the result as put into the tool_complete event.
result_data(result) ==
    CASE result.kind \in {"model", "dict"} ->
             [fields |-> result.fields, items |-> <<>>, count |-> 0, value |-> <<>>]
      [] result.kind = "list" ->
             [fields |-> <<>>, items |-> result.items, count |-> Len(result.items),
              value |-> <<>>]
      [] OTHER ->
             [fields |-> <<>>, items |-> <<>>, count |-> 0,
              value |-> Truncate(result.text, 500)]

NoData == [fields |-> <<>>, items |-> <<>>, count |-> 0, value |-> <<>>]

\* The payloads of the three events (monitoring.py:27-35, 57-64, 73-80).
StartPayload(args) ==
    [tool_name |-> "get_weather_conditions", section |-> "S-2",
     parameters |-> Parameters(args), result |-> NoData, error |-> None,
     success |-> None]
CompletePayload(result) ==
    [tool_name |-> "get_weather_conditions", section |-> "S-2",
     parameters |-> <<>>, result |-> result_data(result), error |-> None,
     success |-> "True"]
ErrorPayload(exc) ==
    [tool_name |-> "get_weather_conditions", section |-> "S-2",
     parameters |-> <<>>, result |-> NoData, error |-> exc,
     success |-> "False"]

\* The callback slot: unset (None), a callback that returns, or one that may
\* raise when called.
CallbackModes == {"unset", "returns", "unreliable"}

\* The exception a raising callback raises when called with event_type.
CallbackError(event_type) == "CallbackError in " \o event_type

CallOf(event_type, data, raised) ==
    [event_type |-> event_type, data |-> data, raised |-> raised]

\* `if _tool_callback: _tool_callback(event_type, data)`: the calls made so far.
CallCallback(event_type, data, raised) ==
    IF w.callback = "unset" THEN w.calls
    ELSE Append(w.calls, CallOf(event_type, data, raised))

\* Whether the callback can raise at this call.
CanRaise(raised) == raised => w.callback = "unreliable"

\* wrapper(*args) is entered: monitoring.py:22-35. An exception of the
\* callback leaves the wrapper, the try block not being entered yet.
WStart(raised) ==
    /\ w.pc = "start"
    /\ CanRaise(raised)
    /\ w' = [w EXCEPT !.calls = CallCallback("tool_start", StartPayload(w.args), raised),
                      !.pc = IF raised THEN "done" ELSE "tool",
                      !.outcome = IF raised
                                  THEN [kind |-> "raise", value |-> NoResult,
                                        exc |-> CallbackError("tool_start")]
                                  ELSE @]

\* monitoring.py:39: func(*args, **kwargs) returns or raises.
WTool ==
    /\ w.pc = "tool"
    /\ w' = [w EXCEPT !.tool_calls = Append(@, w.args),
                      !.pc = IF w.behaviour.kind = "return" THEN "complete" ELSE "error",
                      !.caught = IF w.behaviour.kind = "return" THEN None
                                 ELSE w.behaviour.exc]

\* monitoring.py:41-66, inside the try block: an exception of the callback is
\* caught by the except clause of line 68.
WComplete(raised) ==
    /\ w.pc = "complete"
    /\ CanRaise(raised)
    /\ w' = [w EXCEPT !.calls = CallCallback("tool_complete",
                                             CompletePayload(w.behaviour.result), raised),
                      !.pc = IF raised THEN "error" ELSE "done",
                      !.caught = IF raised THEN CallbackError("tool_complete") ELSE @,
                      !.outcome = IF raised THEN @
                                  ELSE [kind |-> "return", value |-> w.behaviour.result,
                                        exc |-> None]]

\* Faulty variant of WError: the except clause emits nothing before it re-raises.
WErrorSilent(raised) ==
    /\ w.pc = "error"
    /\ CanRaise(raised)
    /\ w' = [w EXCEPT !.pc = "done",
                      !.outcome = [kind |-> "raise", value |-> NoResult,
                                   exc |-> w.caught]]

\* Faulty variant of WError: the except clause emits tool_error and does not re-raise.
WErrorSwallows(raised) ==
    /\ w.pc = "error"
    /\ CanRaise(raised)
    /\ w' = [w EXCEPT !.calls = CallCallback("tool_error", ErrorPayload(w.caught), raised),
                      !.pc = "done",
                      !.outcome = IF raised
                                  THEN [kind |-> "raise", value |-> NoResult,
                                        exc |-> CallbackError("tool_error")]
                                  ELSE [kind |-> "return", value |-> NoResult,
                                        exc |-> None]]

\* monitoring.py:68-82: tool_error is emitted, then `raise` re-raises the
\* exception being handled; an exception of the callback replaces it.
WError(raised) ==
    /\ w.pc = "error"
    /\ CanRaise(raised)
    /\ w' = [w EXCEPT !.calls = CallCallback("tool_error", ErrorPayload(w.caught), raised),
                      !.pc = "done",
                      !.outcome = [kind |-> "raise", value |-> NoResult,
                                   exc |-> IF raised THEN CallbackError("tool_error")
                                           ELSE w.caught]]

ToolBehaviours ==
    {[kind |-> "return", result |-> r, exc |-> None] : r \in ToolResults}
    \cup {[kind |-> "raise", result |-> NoResult, exc |-> e] : e \in ToolExceptions}

\* A call of the wrapped tool about to start.
WrapperCalls ==
    {[pc |-> "start", callback |-> c, args |-> a, behaviour |-> b,
      tool_calls |-> <<>>, calls |-> <<>>, caught |-> None,
      outcome |-> [kind |-> "none", value |-> NoResult, exc |-> None]] :
        c \in CallbackModes, a \in ArgLists, b \in ToolBehaviours}

InitWrapper ==
    /\ InitCorrelator
    /\ w \in WrapperCalls
    /\ f = FInit0
    /\ pkg = PkgInit0
    /\ svc = SvcInit0
    /\ shared = SharedInit0
    /\ frago = FragoInit0

NextWrapper ==
    \/ \E raised \in BOOLEAN : WStart(raised)
            /\ UNCHANGED <<corrVars, f, pkg, svc, shared, frago>>
    \/ WTool /\ UNCHANGED <<corrVars, f, pkg, svc, shared, frago>>
    \/ \E raised \in BOOLEAN : WComplete(raised)
            /\ UNCHANGED <<corrVars, f, pkg, svc, shared, frago>>
    \/ \E raised \in BOOLEAN : WError(raised)
            /\ UNCHANGED <<corrVars, f, pkg, svc, shared, frago>>

SpecWrapper == InitWrapper /\ [][NextWrapper]_vars

\* ------------------- src/tools/s3_operations.py: compute_operation_feasibility
\* How many of the snapshots of a documented scenario a caller replaces.
MaxChanged == 2

\* A Python value: an integer, a string (its characters), None, a list, or
\* "absent" for a key the dict does not hold.
Val(tag, n, s) == [tag |-> tag, n |-> n, s |-> s]
Absent == Val("absent", 0, <<>>)
NoneVal == Val("none", 0, <<>>)
ListVal == Val("list", 0, <<>>)
IntVal(n) == Val("int", n, <<>>)
StrVal(s) == Val("str", 0, s)

Good == <<"G", "o", "o", "d">>
GOOD == <<"G", "O", "O", "D">>
good == <<"g", "o", "o", "d">>
Fair == <<"F", "a", "i", "r">>
LOW == <<"L", "O", "W">>
low == <<"l", "o", "w">>
MODERATE == <<"M", "O", "D", "E", "R", "A", "T", "E">>
HIGH == <<"H", "I", "G", "H">>
OPERATIONAL == <<"O", "P", "E", "R", "A", "T", "I", "O", "N", "A", "L">>
DOWN == <<"D", "O", "W", "N">>
NotAvailable == <<"N", "/", "A">>
Percent(tens, units) == <<tens, units, "%">>

\* dict.get(key, default) on a dict.
Get(v, default) == IF v.tag = "absent" THEN default ELSE v

\* bool(v)
Truthy(v) ==
    CASE v.tag = "int" -> v.n # 0
      [] v.tag = "str" -> v.s # <<>>
      [] OTHER -> FALSE

\* a <= b and a >= b are defined between two integers; None on either side,
\* and a string against an integer, raise TypeError.
Ordered(a, b) == a.tag = "int" /\ b.tag = "int"

\* str.lower()
UpperToLower ==
    "A" :> "a" @@ "B" :> "b" @@ "C" :> "c" @@ "D" :> "d" @@ "E" :> "e" @@
    "F" :> "f" @@ "G" :> "g" @@ "H" :> "h" @@ "I" :> "i" @@ "J" :> "j" @@
    "K" :> "k" @@ "L" :> "l" @@ "M" :> "m" @@ "N" :> "n" @@ "O" :> "o" @@
    "P" :> "p" @@ "Q" :> "q" @@ "R" :> "r" @@ "S" :> "s" @@ "T" :> "t" @@
    "U" :> "u" @@ "V" :> "v" @@ "W" :> "w" @@ "X" :> "x" @@ "Y" :> "y" @@
    "Z" :> "z"
Lower(s) ==
    [i \in 1..Len(s) |->
        IF s[i] \in DOMAIN UpperToLower THEN UpperToLower[s[i]] ELSE s[i]]

DigitValue ==
    "0" :> 0 @@ "1" :> 1 @@ "2" :> 2 @@ "3" :> 3 @@ "4" :> 4
    @@ "5" :> 5 @@ "6" :> 6 @@ "7" :> 7 @@ "8" :> 8 @@ "9" :> 9
DigitChar == <<"0", "1", "2", "3", "4", "5", "6", "7", "8", "9">>

RECURSIVE Digits(_)
Digits(n) ==
    IF n < 10 THEN <<DigitChar[n + 1]>>
    ELSE Digits(n \div 10) \o <<DigitChar[(n % 10) + 1]>>

\* str(v)
StrOf(v) ==
    CASE v.tag = "str" -> v.s
      [] v.tag = "int" -> Digits(v.n)
      [] v.tag = "list" -> <<"[", "]">>
      [] OTHER -> <<"N", "o", "n", "e">>

\* s.replace(c, "")
Remove(s, c) == SelectSeq(s, LAMBDA x : x # c)

RECURSIVE IntOf(_)
IntOf(s) ==
    IF s = <<>> THEN 0
    ELSE IntOf(SubSeq(s, 1, Len(s) - 1)) * 10 + DigitValue[s[Len(s)]]

\* int(str(v).replace("%", "") or 0): ok is FALSE where int() raises
\* ValueError, which it does on a text that is not a decimal numeral.
int_percent(v) ==
    LET text == Remove(StrOf(v), "%")
    IN IF text = <<>> THEN [ok |-> TRUE, n |-> 0]
       ELSE IF \A i \in 1..Len(text) : text[i] \in DOMAIN DigitValue
            THEN [ok |-> TRUE, n |-> IntOf(text)]
            ELSE [ok |-> FALSE, n |-> 0]

\* The snapshots.  tag is "dict" for a dict and "none" for None given in its
\* place; a nested dict has tag "absent" where its key is missing.
Weather(wind, vis) ==
    [tag |-> "dict", wind_speed_mph |-> wind, visibility_meters |-> vis]
Terrain(mobility) == [tag |-> "dict", mobility_assessment |-> mobility]
Threat(level) == [tag |-> "dict", threat_level |-> level]
PersonnelStrength(tag, pr) == [tag |-> tag, readiness_percent |-> pr]
Readiness(ps, er) ==
    [tag |-> "dict", personnel_strength |-> ps, equipment_readiness |-> er]
VehicleStatus(op, total) ==
    [tag |-> "dict", operational |-> op, total |-> total]
Net(tag, status) == [tag |-> tag, status |-> status]
Comms(primary, alt) ==
    [tag |-> "dict", primary_net |-> primary, alternate_net |-> alt]
Supply(quantity) == [tag |-> "dict", quantity |-> quantity]
Requirements(tag, mres, fuel) ==
    [tag |-> tag, mres_required |-> mres, fuel_required_gallons |-> fuel]
Sustainment(tag, empty, req) ==
    [tag |-> tag, empty |-> empty, requirements |-> req]

\* d.get(key, {}) for a key that holds a dict: the empty dict when missing.
GetDict(d) == IF d.tag = "absent" THEN [d EXCEPT !.tag = "dict"] ELSE d

\* Faulty variant of WeatherScore: a wind of exactly 20 earns nothing, and the
\* visibility is not read.
WeatherScoreStrict(weather) ==
    IF weather.tag # "dict" THEN 0
    ELSE IF weather.wind_speed_mph.tag = "int"
            /\ weather.wind_speed_mph.n < 20 THEN 1
    ELSE 0

\* lines 210-216.  A failure at line 214 keeps the point of line 213.
WeatherScore(weather) ==
    IF weather.tag # "dict" THEN 0
    ELSE LET wind == Get(weather.wind_speed_mph, IntVal(10))
             vis == Get(weather.visibility_meters, IntVal(10000))
         IN IF ~Ordered(wind, IntVal(20)) THEN 0
            ELSE (IF wind.n <= 20 THEN 1 ELSE 0)
                 + (IF ~Ordered(vis, IntVal(5000)) THEN 0
                    ELSE IF vis.n >= 5000 THEN 1 ELSE 0)

\* lines 218-222
TerrainScore(terrain) ==
    IF terrain.tag # "dict" THEN 0
    ELSE LET mobility == Get(terrain.mobility_assessment, StrVal(Good))
         IN IF mobility.tag # "str" THEN 0
            ELSE IF Lower(mobility.s) = good THEN 1 ELSE 0

\* Faulty variant of ThreatScore: a low threat earns three points.
ThreatScoreThree(threat) ==
    IF threat.tag # "dict" THEN 0
    ELSE LET level == Get(threat.threat_level, StrVal(MODERATE))
         IN IF level.tag = "list" THEN 0
            ELSE IF level = StrVal(LOW) THEN 3
            ELSE IF level = StrVal(MODERATE) THEN 1
            ELSE 0

\* lines 224-228.  A list is not hashable: the lookup raises TypeError.
ThreatScore(threat) ==
    IF threat.tag # "dict" THEN 0
    ELSE LET level == Get(threat.threat_level, StrVal(MODERATE))
         IN IF level.tag = "list" THEN 0
            ELSE IF level = StrVal(LOW) THEN 2
            ELSE IF level = StrVal(MODERATE) THEN 1
            ELSE 0

\* lines 230-238.  Both texts are parsed before either point is added.
ReadinessScore(readiness) ==
    IF readiness.tag # "dict" THEN 0
    ELSE LET ps == GetDict(readiness.personnel_strength)
         IN IF ps.tag # "dict" THEN 0
            ELSE LET pr == Get(ps.readiness_percent, StrVal(Percent("9", "0")))
                     er == Get(readiness.equipment_readiness,
                               StrVal(Percent("9", "0")))
                     pr_val == int_percent(pr)
                     er_val == int_percent(er)
                 IN IF ~pr_val.ok \/ ~er_val.ok THEN 0
                    ELSE (IF pr_val.n >= 90 THEN 1 ELSE 0)
                         + (IF er_val.n >= 85 THEN 1 ELSE 0)

\* lines 240-246.  (op / total) * 100 >= 70 is 10 * op >= 7 * total for the
\* non-negative counts drawn here.
VehicleScore(vehicle_status) ==
    IF vehicle_status.tag # "dict" THEN 0
    ELSE LET op == Get(vehicle_status.operational, IntVal(0))
             total == Get(vehicle_status.total, IntVal(1))
         IN IF ~Truthy(total) THEN 0
            ELSE IF op.tag # "int" \/ total.tag # "int" THEN 0
            ELSE IF 10 * op.n >= 7 * total.n THEN 1 ELSE 0

\* lines 248-254.  Both statuses are read before either point is added.
CommsScore(comms) ==
    IF comms.tag # "dict" THEN 0
    ELSE LET primary == GetDict(comms.primary_net)
             alt == GetDict(comms.alternate_net)
         IN IF primary.tag # "dict" \/ alt.tag # "dict" THEN 0
            ELSE LET primary_ok == Get(primary.status, StrVal(OPERATIONAL))
                                       = StrVal(OPERATIONAL)
                     alt_ok == Get(alt.status, StrVal(OPERATIONAL))
                                       = StrVal(OPERATIONAL)
                 IN (IF primary_ok THEN 1 ELSE 0) + (IF alt_ok THEN 1 ELSE 0)

\* line 257
Supplied(sustainment) == sustainment.tag = "dict" /\ ~sustainment.empty

\* Faulty variant of SustainmentScore: an exception in the block counts as a
\* shortfall.
SustainmentScoreFailClosed(sustainment, supply_mres, supply_fuel) ==
    LET failed == [points |-> 0, ok |-> FALSE]
    IN IF ~Supplied(sustainment) THEN [points |-> 0, ok |-> TRUE]
       ELSE LET req == GetDict(sustainment.requirements)
            IN IF req.tag # "dict" THEN failed
               ELSE IF supply_mres.tag # "dict" \/ supply_fuel.tag # "dict"
                    THEN failed
               ELSE LET mres_req == Get(req.mres_required, IntVal(0))
                        fuel_req == Get(req.fuel_required_gallons, IntVal(0))
                        mres_have == Get(supply_mres.quantity, IntVal(0))
                        fuel_have == Get(supply_fuel.quantity, IntVal(0))
                    IN IF ~Ordered(mres_have, mres_req) THEN failed
                       ELSE IF mres_have.n < mres_req.n THEN failed
                       ELSE IF ~Ordered(fuel_have, fuel_req) THEN failed
                       ELSE IF fuel_have.n >= fuel_req.n
                            THEN [points |-> 2, ok |-> TRUE]
                            ELSE failed

\* lines 256-268: the points of the block and sustainment_ok.  An exception
\* anywhere in the block leaves both as they were.
SustainmentScore(sustainment, supply_mres, supply_fuel) ==
    LET skipped == [points |-> 0, ok |-> TRUE]
    IN IF ~Supplied(sustainment) THEN skipped
       ELSE LET req == GetDict(sustainment.requirements)
            IN IF req.tag # "dict" THEN skipped
               ELSE IF supply_mres.tag # "dict" \/ supply_fuel.tag # "dict"
                    THEN skipped
               ELSE LET mres_req == Get(req.mres_required, IntVal(0))
                        fuel_req == Get(req.fuel_required_gallons, IntVal(0))
                        mres_have == Get(supply_mres.quantity, IntVal(0))
                        fuel_have == Get(supply_fuel.quantity, IntVal(0))
                    IN IF ~Ordered(mres_have, mres_req) THEN skipped
                       ELSE IF mres_have.n < mres_req.n
                            THEN [points |-> 0, ok |-> FALSE]
                       ELSE IF ~Ordered(fuel_have, fuel_req) THEN skipped
                       ELSE IF fuel_have.n >= fuel_req.n
                            THEN [points |-> 2, ok |-> TRUE]
                            ELSE [points |-> 0, ok |-> FALSE]

\* Faulty variant of Decision: GO needs a score above 7.
DecisionStrict(score, sustainment_ok) ==
    IF score > 7 /\ sustainment_ok THEN "GO"
    ELSE IF score >= 5 THEN "GO WITH CAVEATS"
    ELSE "NO-GO"

\* Faulty variant of Decision: a score above the nominal scale of 10 is
\* rejected.
DecisionCapped(score, sustainment_ok) ==
    IF score > 10 THEN "NO-GO"
    ELSE IF score >= 7 /\ sustainment_ok THEN "GO"
    ELSE IF score >= 5 THEN "GO WITH CAVEATS"
    ELSE "NO-GO"

\* lines 270-272
Decision(score, sustainment_ok) ==
    IF score >= 7 /\ sustainment_ok THEN "GO"
    ELSE IF score >= 5 THEN "GO WITH CAVEATS"
    ELSE "NO-GO"

\* lines 274-338: the lines of the narrative, each by its label.  A line whose
\* formatting raises inside its try block is left out.
Line(present, label) == IF present THEN <<label>> ELSE <<>>
Narrative(in) ==
    <<"header", "S-2 SUMMARY">>
    \o Line(in.weather.tag = "dict", "Weather")
    \o Line(in.terrain.tag = "dict", "Terrain")
    \o Line(in.threat.tag = "dict", "Threat")
    \o <<"S-3 SUMMARY">>
    \o Line(/\ in.readiness.tag = "dict"
            /\ GetDict(in.readiness.personnel_strength).tag = "dict",
            "Readiness")
    \o Line(in.vehicle_status.tag = "dict", "Vehicles")
    \o Line(/\ in.comms.tag = "dict"
            /\ GetDict(in.comms.primary_net).tag = "dict"
            /\ GetDict(in.comms.alternate_net).tag = "dict", "Comms")
    \o <<"S-4 SUMMARY">>
    \o Line(in.supply_mres.tag = "dict", "MREs")
    \o Line(in.supply_mres.tag = "dict" /\ in.supply_fuel.tag = "dict", "Fuel")
    \o Line(Supplied(in.sustainment), "Requirements")
    \o <<"DECISION", "RECOMMENDATIONS">>

\* lines 327-331 stand outside any try block: req.get raises AttributeError
\* when requirements is not a dict.
NarrativeRaises(in) ==
    /\ Supplied(in.sustainment)
    /\ GetDict(in.sustainment.requirements).tag # "dict"

NoOutput ==
    [raised |-> FALSE, narrative |-> <<>>, decision |-> None, score |-> 0,
     sustainment_ok |-> TRUE]

\* lines 209-346
compute_operation_feasibility(in) ==
    LET sus == SustainmentScore(in.sustainment, in.supply_mres, in.supply_fuel)
        score == WeatherScore(in.weather) + TerrainScore(in.terrain)
                 + ThreatScore(in.threat) + ReadinessScore(in.readiness)
                 + VehicleScore(in.vehicle_status) + CommsScore(in.comms)
                 + sus.points
    IN IF NarrativeRaises(in) THEN [NoOutput EXCEPT !.raised = TRUE]
       ELSE [raised |-> FALSE,
             narrative |-> Narrative(in),
             decision |-> Decision(score, sus.ok),
             score |-> score,
             sustainment_ok |-> sus.ok]

\* The arguments of the function, in the order of its signature (lines
\* 193-201).
Snapshots ==
    <<"weather", "terrain", "threat", "readiness", "vehicle_status",
      "supply_mres", "supply_fuel", "comms", "sustainment">>

NotADict(snapshot) == [snapshot EXCEPT !.tag = "none"]

WeatherValues ==
    LET all == {Weather(wind, vis) :
                    wind \in {Absent, IntVal(20), IntVal(21), NoneVal},
                    vis \in {Absent, IntVal(4999), IntVal(5000), NoneVal}}
    IN all \cup {NotADict(Weather(Absent, Absent))}
TerrainValues ==
    LET all == {Terrain(m) : m \in {Absent, StrVal(GOOD), StrVal(Fair),
                                      NoneVal}}
    IN all \cup {NotADict(Terrain(Absent))}
ThreatValues ==
    LET all == {Threat(l) : l \in {Absent, StrVal(LOW), StrVal(MODERATE),
                                    StrVal(HIGH), StrVal(low), ListVal}}
    IN all \cup {NotADict(Threat(Absent))}
PersonnelValues ==
    {PersonnelStrength("absent", Absent), PersonnelStrength("none", Absent)}
    \cup {PersonnelStrength("dict", pr) :
              pr \in {Absent, StrVal(Percent("9", "0")),
                      StrVal(Percent("8", "9")), StrVal(NotAvailable),
                      StrVal(<<>>)}}
ReadinessValues ==
    LET all == {Readiness(ps, er) :
                    ps \in PersonnelValues,
                    er \in {Absent, StrVal(Percent("8", "5")),
                            StrVal(Percent("8", "4")), IntVal(85),
                            StrVal(NotAvailable)}}
    IN all \cup {NotADict(Readiness(PersonnelStrength("absent", Absent),
                                    Absent))}
VehicleValues ==
    LET all == {VehicleStatus(op, total) :
                    op \in {Absent, IntVal(6), IntVal(7), NoneVal},
                    total \in {Absent, IntVal(0), IntVal(10), NoneVal}}
    IN all \cup {NotADict(VehicleStatus(Absent, Absent))}
SupplyValues ==
    LET all == {Supply(n) : n \in {Absent, IntVal(100), IntVal(200), NoneVal}}
    IN all \cup {NotADict(Supply(Absent))}
NetValues ==
    {Net("absent", Absent), Net("none", Absent)}
    \cup {Net("dict", st) : st \in {Absent, StrVal(OPERATIONAL), StrVal(DOWN)}}
CommsValues ==
    LET all == {Comms(primary, alt) : primary \in NetValues, alt \in NetValues}
    IN all \cup {NotADict(Comms(Net("absent", Absent), Net("absent", Absent)))}
NoRequirements == Requirements("absent", Absent, Absent)
NoSustainment == Sustainment("none", TRUE, NoRequirements)
RequirementsValues ==
    {NoRequirements, Requirements("none", Absent, Absent)}
    \cup {Requirements("dict", mres, fuel) :
              mres \in {Absent, IntVal(150), NoneVal},
              fuel \in {Absent, IntVal(150), IntVal(250), NoneVal}}
SustainmentValues ==
    {NoSustainment, Sustainment("dict", TRUE, NoRequirements),
     Sustainment("str", FALSE, NoRequirements)}
    \cup {Sustainment("dict", FALSE, req) : req \in RequirementsValues}

SnapshotValues(k) ==
    CASE k = "weather" -> WeatherValues
      [] k = "terrain" -> TerrainValues
      [] k = "threat" -> ThreatValues
      [] k = "readiness" -> ReadinessValues
      [] k = "vehicle_status" -> VehicleValues
      [] k = "supply_mres" -> SupplyValues
      [] k = "supply_fuel" -> SupplyValues
      [] k = "comms" -> CommsValues
      [] k = "sustainment" -> SustainmentValues

\* The three calls the function is documented with: every input in order,
\* then a high threat with the alternate net down, then few vehicles as well.
Scenario(threat_level, alt_status, operational) ==
    [weather |-> Weather(IntVal(10), IntVal(8000)),
     terrain |-> Terrain(StrVal(Good)),
     threat |-> Threat(StrVal(threat_level)),
     readiness |-> Readiness(
         PersonnelStrength("dict", StrVal(Percent("9", "5"))),
         StrVal(Percent("9", "0"))),
     vehicle_status |-> VehicleStatus(IntVal(operational), IntVal(10)),
     supply_mres |-> Supply(IntVal(200)),
     supply_fuel |-> Supply(IntVal(200)),
     comms |-> Comms(Net("dict", StrVal(OPERATIONAL)),
                     Net("dict", StrVal(alt_status))),
     sustainment |-> NoSustainment]
Scenarios ==
    {Scenario(LOW, OPERATIONAL, 8), Scenario(HIGH, DOWN, 8),
     Scenario(HIGH, DOWN, 2)}

\* f: a call of compute_operation_feasibility.  The caller starts from a
\* scenario, replaces at most MaxChanged of its snapshots, in the order of the
\* signature, and calls the function.
FeasibilityCalls ==
    {[pc |-> "input", in |-> in, changed |-> 0, last |-> 0, out |-> NoOutput] :
         in \in Scenarios}

SetSnapshot(i, v) ==
    /\ f.pc = "input"
    /\ f.changed < MaxChanged
    /\ i > f.last
    /\ v # f.in[Snapshots[i]]
    /\ f' = [f EXCEPT !.in[Snapshots[i]] = v, !.changed = @ + 1, !.last = i]

Call ==
    /\ f.pc = "input"
    /\ f' = [f EXCEPT !.pc = "done",
                      !.out = compute_operation_feasibility(f.in)]

InitFeasibility ==
    /\ InitCorrelator
    /\ w = WInit0
    /\ f \in FeasibilityCalls
    /\ pkg = PkgInit0
    /\ svc = SvcInit0
    /\ shared = SharedInit0
    /\ frago = FragoInit0

NextFeasibility ==
    \/ /\ f.pc = "input" /\ f.changed < MaxChanged
       /\ \E i \in (f.last + 1)..Len(Snapshots) :
              \E v \in SnapshotValues(Snapshots[i]) :
                  SetSnapshot(i, v) /\ UNCHANGED <<corrVars, w, pkg, svc, shared, frago>>
    \/ Call /\ UNCHANGED <<corrVars, w, pkg, svc, shared, frago>>

SpecFeasibility == InitFeasibility /\ [][NextFeasibility]_vars

\* --------------- src/tools/report_generation.py: generate_decision_package
\* How many issues a caller lists.
MaxIssues == 2

\* The keywords of lines 344-348 and 362-366.
fuel == <<"f", "u", "e", "l">>
vehicle == <<"v", "e", "h", "i", "c", "l", "e">>
personnel == <<"p", "e", "r", "s", "o", "n", "n", "e", "l">>
supply == <<"s", "u", "p", "p", "l", "y">>
casualty == <<"c", "a", "s", "u", "a", "l", "t", "y">>
enemy == <<"e", "n", "e", "m", "y">>
contact == <<"c", "o", "n", "t", "a", "c", "t">>

\* Issue texts: one keyword, several keywords in capitals, no keyword.
FuelShortage == <<"f", "u", "e", "l", " ", "s", "h", "o", "r", "t", "a", "g",
    "e">>
PersonnelGap == <<"p", "e", "r", "s", "o", "n", "n", "e", "l", " ", "g", "a",
    "p">>
FuelVehiclesPersonnel == <<"F", "U", "E", "L", " ", "f", "o", "r", " ", "V",
    "e", "h", "i", "c", "l", "e", "s", " ", "a", "n", "d", " ", "P", "e",
    "r", "s", "o", "n", "n", "e", "l">>
VehicleMaintenance == <<"V", "e", "h", "i", "c", "l", "e", " ", "m", "a",
    "i", "n", "t", "e", "n", "a", "n", "c", "e">>
SupplyRouteCut == <<"s", "u", "p", "p", "l", "y", " ", "r", "o", "u", "t",
    "e", " ", "c", "u", "t">>
EnemyContact == <<"E", "n", "e", "m", "y", " ", "c", "o", "n", "t", "a", "c",
    "t", " ", "r", "e", "p", "o", "r", "t", "e", "d">>
CasualtyEvacuation == <<"c", "a", "s", "u", "a", "l", "t", "y", " ", "e",
    "v", "a", "c", "u", "a", "t", "i", "o", "n">>
WeatherDelay == <<"w", "e", "a", "t", "h", "e", "r", " ", "d", "e", "l", "a",
    "y">>
IssueTexts ==
    {FuelShortage, PersonnelGap, FuelVehiclesPersonnel,
     VehicleMaintenance, SupplyRouteCut, EnemyContact,
     CasualtyEvacuation, WeatherDelay}

\* sub in s
Contains(s, sub) ==
    \E i \in 1..(Len(s) - Len(sub) + 1) : SubSeq(s, i, i + Len(sub) - 1) = sub

\* Faulty variant of Penalty: an issue is penalised for its first keyword only.
PenaltyFirstKeyword(issue) ==
    IF Contains(Lower(issue), fuel) THEN 3
    ELSE IF Contains(Lower(issue), vehicle) THEN 2
    ELSE IF Contains(Lower(issue), personnel) THEN 2
    ELSE 0

\* lines 344-349: what one issue takes off the score.
Penalty(issue) ==
    (IF Contains(Lower(issue), fuel) THEN 3 ELSE 0)
    + (IF Contains(Lower(issue), vehicle) THEN 2 ELSE 0)
    + (IF Contains(Lower(issue), personnel) THEN 2 ELSE 0)

\* lines 342-349
RECURSIVE PackageScore(_)
PackageScore(issues) ==
    IF issues = <<>> THEN 10
    ELSE PackageScore(SubSeq(issues, 1, Len(issues) - 1))
         - Penalty(issues[Len(issues)])

\* Faulty variant of PackageDecision: GO needs a score above 8.
PackageDecisionStrict(score) ==
    IF score > 8 THEN "GO"
    ELSE IF score >= 6 THEN "GO WITH CAVEATS"
    ELSE "NO-GO"

\* lines 352-357
PackageDecision(score) ==
    IF score >= 8 THEN "GO"
    ELSE IF score >= 6 THEN "GO WITH CAVEATS"
    ELSE "NO-GO"

\* line 378
RiskAssessment(score) == IF score >= 6 THEN "MODERATE" ELSE "HIGH"

\* lines 362-367: the reports one issue appends.
ReportsOf(issue) ==
    (IF Contains(Lower(issue), fuel) \/ Contains(Lower(issue), supply)
     THEN <<"LOGSTAT">> ELSE <<>>)
    \o (IF Contains(Lower(issue), personnel) \/ Contains(Lower(issue), casualty)
        THEN <<"PERSTAT">> ELSE <<>>)
    \o (IF Contains(Lower(issue), enemy) \/ Contains(Lower(issue), contact)
        THEN <<"SPOT">> ELSE <<>>)

\* lines 360-367
RECURSIVE RequiredReports(_)
RequiredReports(issues) ==
    IF issues = <<>> THEN <<>>
    ELSE RequiredReports(SubSeq(issues, 1, Len(issues) - 1))
         \o ReportsOf(issues[Len(issues)])

SetOf(seq) == {seq[i] : i \in 1..Len(seq)}

\* Faulty variant of Deduplicated: the list is kept as it was appended.
NotDeduplicated(reports) == {reports}

\* line 376, list(set(required_reports)): the elements once each, in an order
\* the language does not fix.
Deduplicated(reports) ==
    {l \in [1..Cardinality(SetOf(reports)) -> SetOf(reports)] :
        SetOf(l) = SetOf(reports)}

Assessments == {"none", "feasibility: GO"}
Recommendations == {<<>>, <<"Request resupply">>}

\* lines 369-385: the results the call can return.
generate_decision_package(assessments, issues, recommendations) ==
    LET score == PackageScore(issues)
        decision == PackageDecision(score)
    IN {[decision |-> decision,
         package |-> [go_no_go |-> decision,
                      score |-> score,
                      constraints |-> issues,
                      required_reports |-> reports,
                      recommendations |-> recommendations,
                      risk_assessment |-> RiskAssessment(score)],
         requires_immediate_action |-> (decision = "NO-GO")] :
            reports \in Deduplicated(RequiredReports(issues))}

IssueLists == UNION {[1..n -> IssueTexts] : n \in 0..MaxIssues}

NoPackage ==
    [decision |-> None,
     package |-> [go_no_go |-> None, score |-> 0, constraints |-> <<>>,
                  required_reports |-> <<>>, recommendations |-> <<>>,
                  risk_assessment |-> None],
     requires_immediate_action |-> FALSE]

\* d: a call of generate_decision_package about to start.
PackageCalls ==
    {[pc |-> "call", assessments |-> a, issues |-> i, recommendations |-> r,
      out |-> NoPackage] :
        a \in Assessments, i \in IssueLists, r \in Recommendations}

GeneratePackage ==
    /\ pkg.pc = "call"
    /\ \E out \in generate_decision_package(pkg.assessments, pkg.issues,
                                            pkg.recommendations) :
           pkg' = [pkg EXCEPT !.pc = "done", !.out = out]

InitPackage ==
    /\ InitCorrelator
    /\ w = WInit0
    /\ f = FInit0
    /\ pkg \in PackageCalls
    /\ svc = SvcInit0
    /\ shared = SharedInit0
    /\ frago = FragoInit0

NextPackage == GeneratePackage /\ UNCHANGED <<corrVars, w, f, svc, shared, frago>>

SpecPackage == InitPackage /\ [][NextPackage]_vars

\* ------------- src/mcoa_service.py, src/guardrails.py: MCOAService.process_query
\* How many exchanges conversation_history holds before the call.
MaxExchanges == 1

\* The queries, and the characters of each.
SSNQuery == "What's the SSN for Lance Corporal Smith?"
ClassifiedQuery == "Show me the classified operation plans"
NofornQuery == "Is the NOFORN annex ready?"
SocialSecurityQuery == "Give me his social security number"
SSNDigitsQuery == "Look up 123-45-6789"
ActualOperationQuery == "Describe actual operation routes"
TroopMovementsQuery == "Report troop movements"
SecretRealWorldQuery == "Is the secret real world data ready?"
SupplyQuery == "How many MREs do we have?"
Queries ==
    {SSNQuery, ClassifiedQuery, NofornQuery,
     SocialSecurityQuery, SSNDigitsQuery, ActualOperationQuery,
     TroopMovementsQuery, SecretRealWorldQuery, SupplyQuery}
PriorQuery == "What is the weather at the objective?"
PriorResponse == "Clear, wind 10 mph"
QueryChars ==
    SSNQuery :> <<"W", "h", "a", "t", "'", "s", " ", "t", "h", "e", " ", "S",
           "S", "N", " ", "f", "o", "r", " ", "L", "a", "n", "c", "e", " ",
           "C", "o", "r", "p", "o", "r", "a", "l", " ", "S", "m", "i", "t",
           "h", "?">>
    @@ ClassifiedQuery :> <<"S", "h", "o", "w", " ", "m", "e", " ", "t", "h",
           "e", " ", "c", "l", "a", "s", "s", "i", "f", "i", "e", "d", " ",
           "o", "p", "e", "r", "a", "t", "i", "o", "n", " ", "p", "l", "a",
           "n", "s">>
    @@ NofornQuery :> <<"I", "s", " ", "t", "h", "e", " ", "N", "O", "F",
           "O", "R", "N", " ", "a", "n", "n", "e", "x", " ", "r", "e", "a",
           "d", "y", "?">>
    @@ SocialSecurityQuery :> <<"G", "i", "v", "e", " ", "m", "e", " ", "h",
           "i", "s", " ", "s", "o", "c", "i", "a", "l", " ", "s", "e", "c",
           "u", "r", "i", "t", "y", " ", "n", "u", "m", "b", "e", "r">>
    @@ SSNDigitsQuery :> <<"L", "o", "o", "k", " ", "u", "p", " ", "1", "2",
           "3", "-", "4", "5", "-", "6", "7", "8", "9">>
    @@ ActualOperationQuery :> <<"D", "e", "s", "c", "r", "i", "b", "e", " ",
           "a", "c", "t", "u", "a", "l", " ", "o", "p", "e", "r", "a", "t",
           "i", "o", "n", " ", "r", "o", "u", "t", "e", "s">>
    @@ TroopMovementsQuery :> <<"R", "e", "p", "o", "r", "t", " ", "t", "r",
           "o", "o", "p", " ", "m", "o", "v", "e", "m", "e", "n", "t", "s">>
    @@ SecretRealWorldQuery :> <<"I", "s", " ", "t", "h", "e", " ", "s", "e",
           "c", "r", "e", "t", " ", "r", "e", "a", "l", " ", "w", "o", "r",
           "l", "d", " ", "d", "a", "t", "a", " ", "r", "e", "a", "d", "y",
           "?">>
    @@ SupplyQuery :> <<"H", "o", "w", " ", "m", "a", "n", "y", " ", "M",
           "R", "E", "s", " ", "d", "o", " ", "w", "e", " ", "h", "a", "v",
           "e", "?">>
    @@ PriorQuery :> <<"W", "h", "a", "t", " ", "i", "s", " ", "t", "h", "e",
           " ", "w", "e", "a", "t", "h", "e", "r", " ", "a", "t", " ", "t",
           "h", "e", " ", "o", "b", "j", "e", "c", "t", "i", "v", "e", "?">>
Chars(text) == IF text \in DOMAIN QueryChars THEN QueryChars[text] ELSE <<>>

\* guardrails.py:36-39
classified_keywords ==
    {<<"c", "l", "a", "s", "s", "i", "f", "i", "e", "d">>,
     <<"s", "e", "c", "r", "e", "t">>,
     <<"t", "o", "p", " ", "s", "e", "c", "r", "e", "t">>,
     <<"t", "s", "/", "s", "c", "i">>,
     <<"n", "o", "f", "o", "r", "n">>,
     <<"c", "r", "y", "p", "t", "o">>,
     <<"s", "i", "g", "i", "n", "t">>,
     <<"h", "u", "m", "i", "n", "t">>}
\* guardrails.py:81-85, the patterns that are plain texts
pii_texts ==
    {<<"s", "o", "c", "i", "a", "l", " ", "s", "e", "c", "u", "r", "i", "t",
       "y">>,
     <<"h", "o", "m", "e", " ", "a", "d", "d", "r", "e", "s", "s">>,
     <<"p", "e", "r", "s", "o", "n", "a", "l", " ", "p", "h", "o", "n", "e">>,
     <<"n", "e", "x", "t", " ", "o", "f", " ", "k", "i", "n">>,
     <<"f", "a", "m", "i", "l", "y", " ", "m", "e", "m", "b", "e", "r">>}
\* guardrails.py:125-129
opsec_violations ==
    {<<"r", "e", "a", "l", " ", "w", "o", "r", "l", "d">>,
     <<"a", "c", "t", "u", "a", "l", " ", "o", "p", "e", "r", "a", "t", "i",
       "o", "n">>,
     <<"c", "u", "r", "r", "e", "n", "t", " ", "d", "e", "p", "l", "o", "y",
       "m", "e", "n", "t">>,
     <<"t", "r", "o", "o", "p", " ", "m", "o", "v", "e", "m", "e", "n", "t",
       "s">>,
     <<"e", "x", "a", "c", "t", " ", "c", "o", "o", "r", "d", "i", "n", "a",
       "t", "e", "s">>,
     <<"r", "e", "a", "l", " ", "n", "a", "m", "e", "s">>,
     <<"a", "c", "t", "u", "a", "l", " ", "l", "o", "c", "a", "t", "i", "o",
       "n">>,
     <<"l", "i", "v", "e", " ", "o", "p", "e", "r", "a", "t", "i", "o", "n">>}
\* mcoa_service.py:270-274
kw_classified == <<"c", "l", "a", "s", "s", "i", "f", "i", "e", "d">>
kw_secret == <<"s", "e", "c", "r", "e", "t">>
kw_ssn == <<"s", "s", "n">>
kw_social_security == <<"s", "o", "c", "i", "a", "l", " ", "s", "e", "c",
    "u", "r", "i", "t", "y">>
kw_real_world == <<"r", "e", "a", "l", " ", "w", "o", "r", "l", "d">>
kw_actual_operation == <<"a", "c", "t", "u", "a", "l", " ", "o", "p", "e",
    "r", "a", "t", "i", "o", "n">>

\* A regular expression of guardrails.py:79-80 as its tokens: "d" stands for
\* \d, any other token for itself; \b is required at both ends.
SSNPattern == <<"d", "d", "d", "-", "d", "d", "-", "d", "d", "d", "d">>
DoDIdPattern == <<"d", "d", "d", "d", "d", "d", "d", "d", "d", "d">>

\* \w on a lowered text
WordChar(c) ==
    \/ c \in DOMAIN DigitValue
    \/ c \in {UpperToLower[u] : u \in DOMAIN UpperToLower}
    \/ c = "_"

\* re.search(r'\b<pattern>\b', s), for a pattern that starts and ends with \d
Search(pattern, s) ==
    \E i \in 1..(Len(s) - Len(pattern) + 1) :
        /\ \A j \in 1..Len(pattern) :
               IF pattern[j] = "d" THEN s[i + j - 1] \in DOMAIN DigitValue
               ELSE s[i + j - 1] = pattern[j]
        /\ IF i = 1 THEN TRUE ELSE ~WordChar(s[i - 1])
        /\ IF i + Len(pattern) - 1 = Len(s) THEN TRUE
           ELSE ~WordChar(s[i + Len(pattern)])

\* The input of the agent run: the query itself, or the cleaned history with
\* the query as the last user turn (mcoa_service.py:190-201).
Turn(content, role) == [content |-> content, role |-> role]
StrInput(text) == [kind |-> "str", text |-> text, items |-> <<>>]
ListInput(items) == [kind |-> "list", text |-> "", items |-> items]

Last6(items) ==
    IF Len(items) > 6 THEN SubSeq(items, Len(items) - 5, Len(items)) ELSE items

InputData(history, query) ==
    IF history # <<>>
    THEN ListInput(Last6(SelectSeq(history, LAMBDA h : h.content # ""))
                   \o <<Turn(query, "user")>>)
    ELSE StrInput(query)

\* guardrails.py:25-33: the lowered text the guardrail looks at.
UserInput(input) ==
    IF input.kind = "str" THEN Lower(Chars(input.text))
    ELSE LET users == {i \in 1..Len(input.items) :
                           input.items[i].role = "user"}
         IN IF users = {} THEN <<>>
            ELSE Lower(Chars(input.items[
                     CHOOSE i \in users : \A j \in users : j <= i].content))

\* guardrails.py:16-55, 58-102, 105-145: tripwire_triggered of each guardrail.
classification_guardrail(input) ==
    \E keyword \in classified_keywords : Contains(UserInput(input), keyword)

pii_protection_guardrail(input) ==
    \/ Search(SSNPattern, UserInput(input))
    \/ Search(DoDIdPattern, UserInput(input))
    \/ \E pattern \in pii_texts : Contains(UserInput(input), pattern)

opsec_guardrail(input) ==
    \E violation \in opsec_violations : Contains(UserInput(input), violation)

\* guardrails.py:148-154
get_security_guardrails == {"classification", "pii", "opsec"}

Tripwire(guardrail, input) ==
    CASE guardrail = "classification" -> classification_guardrail(input)
      [] guardrail = "pii" -> pii_protection_guardrail(input)
      [] guardrail = "opsec" -> opsec_guardrail(input)

\* mcoa_service.py:266-277
get_violation_message(query) ==
    LET query_lower == Lower(Chars(query))
    IN IF Contains(query_lower, kw_classified)
          \/ Contains(query_lower, kw_secret)
       THEN "CLASSIFICATION WARNING: Request for classified information blocked."
       ELSE IF Contains(query_lower, kw_ssn)
               \/ Contains(query_lower, kw_social_security)
       THEN "PII PROTECTION: Personal information request blocked."
       ELSE IF Contains(query_lower, kw_real_world)
               \/ Contains(query_lower, kw_actual_operation)
       THEN "OPSEC VIOLATION: Real operational data request blocked."
       ELSE "Security violation detected."

\* What Runner.run does once no input guardrail has tripped: it returns a
\* result with this final_output, or it raises.
FinalOutputs ==
    {[kind |-> "str", text |-> "850 MREs on hand"],
     [kind |-> "str", text |-> ""],
     [kind |-> "none", text |-> ""],
     [kind |-> "dict", text |-> "FEASIBILITY: GO (score 10/10)"]}
AgentErrors == {"Max turns (20) exceeded", "Connection error."}
AgentBehaviours ==
    {[kind |-> "return", final |-> final, exc |-> None] :
         final \in FinalOutputs}
    \cup {[kind |-> "raise", final |-> [kind |-> "none", text |-> ""],
           exc |-> e] : e \in AgentErrors}

\* mcoa_service.py:152-182 and 207-211: a dict with a narrative gives the
\* narrative, None the empty text, a text itself.
to_text(final) == IF final.kind = "none" THEN "" ELSE final.text

Exchange == <<Turn(PriorQuery, "user"), Turn(PriorResponse, "assistant")>>
RECURSIVE Exchanges(_)
Exchanges(n) == IF n = 0 THEN <<>> ELSE Exchanges(n - 1) \o Exchange
Histories == {Exchanges(n) : n \in 0..MaxExchanges}

NoReturn ==
    [success |-> FALSE, response |-> "", query |-> "",
     guardrail_triggered |-> None, error |-> None]

\* mcoa_service.py:225-230
SuccessResult(query, response_text) ==
    [success |-> TRUE, response |-> response_text, query |-> query,
     guardrail_triggered |-> None, error |-> None]

\* mcoa_service.py:242-248
BlockedResult(query, violation_msg) ==
    [success |-> FALSE, response |-> "[SECURITY BLOCK] " \o violation_msg,
     query |-> query, guardrail_triggered |-> "True", error |-> None]

\* mcoa_service.py:258-264
ErrorResult(query, e) ==
    [success |-> FALSE, response |-> "Error processing query: " \o e,
     query |-> query, guardrail_triggered |-> None, error |-> "True"]

\* svc: a call of process_query about to start.  returned is FALSE until the
\* call returns its result.
ServiceCalls ==
    {[pc |-> "start", callback |-> c, query |-> query,
      conversation_history |-> h, history0 |-> h, agent |-> b,
      input_data |-> StrInput(""), tripped |-> None, caught |-> None,
      events |-> <<>>, returned |-> FALSE, result |-> NoReturn] :
        c \in BOOLEAN, query \in Queries, h \in Histories,
        b \in AgentBehaviours}

\* `if self.tool_callback: self.tool_callback(event_type, data)`
SvcEmit(event_type, detail) ==
    IF svc.callback
    THEN Append(svc.events, [event_type |-> event_type, query |-> svc.query,
                             detail |-> detail])
    ELSE svc.events

\* mcoa_service.py:184-201
SvcStart ==
    /\ svc.pc = "start"
    /\ svc' = [svc EXCEPT
           !.pc = "run",
           !.events = SvcEmit("processing_start", ""),
           !.input_data = InputData(svc.conversation_history, svc.query)]

\* mcoa_service.py:205 and 232: an input guardrail trips and Runner.run raises
\* InputGuardrailTripwireTriggered.  Of several guardrails whose tripwire is
\* triggered the runner reports any one.
SvcGuardrailTrips(guardrail) ==
    /\ svc.pc = "run"
    /\ Tripwire(guardrail, svc.input_data)
    /\ svc' = [svc EXCEPT !.pc = "blocked", !.tripped = guardrail]

NoneTrips ==
    \A guardrail \in get_security_guardrails :
        ~Tripwire(guardrail, svc.input_data)

\* mcoa_service.py:205-230
SvcAgentReturns ==
    /\ svc.pc = "run"
    /\ NoneTrips
    /\ svc.agent.kind = "return"
    /\ LET response_text == to_text(svc.agent.final)
       IN svc' = [svc EXCEPT
              !.pc = "done",
              !.conversation_history =
                  IF response_text # ""
                  THEN @ \o <<Turn(svc.query, "user"),
                              Turn(response_text, "assistant")>>
                  ELSE @,
              !.events = SvcEmit("processing_complete", response_text),
              !.returned = TRUE,
              !.result = SuccessResult(svc.query, response_text)]

\* mcoa_service.py:205 and 250: Runner.run raises another exception.
SvcAgentRaises ==
    /\ svc.pc = "run"
    /\ NoneTrips
    /\ svc.agent.kind = "raise"
    /\ svc' = [svc EXCEPT !.pc = "error", !.caught = svc.agent.exc]

\* Faulty variant of SvcBlocked: the blocked query is kept in the history.
SvcBlockedKeepsQuery ==
    /\ svc.pc = "blocked"
    /\ LET violation_msg == get_violation_message(svc.query)
       IN svc' = [svc EXCEPT
              !.pc = "done",
              !.conversation_history = Append(@, Turn(svc.query, "user")),
              !.events = SvcEmit("guardrail_triggered", violation_msg),
              !.returned = TRUE,
              !.result = BlockedResult(svc.query, violation_msg)]

\* mcoa_service.py:232-248
SvcBlocked ==
    /\ svc.pc = "blocked"
    /\ LET violation_msg == get_violation_message(svc.query)
       IN svc' = [svc EXCEPT
              !.pc = "done",
              !.events = SvcEmit("guardrail_triggered", violation_msg),
              !.returned = TRUE,
              !.result = BlockedResult(svc.query, violation_msg)]

\* Faulty variant of SvcError: the handler reports the error and lets it go on
\* to the caller.
SvcErrorEscapes ==
    /\ svc.pc = "error"
    /\ svc' = [svc EXCEPT
           !.pc = "done",
           !.events = SvcEmit("processing_error", svc.caught)]

\* mcoa_service.py:250-264
SvcError ==
    /\ svc.pc = "error"
    /\ svc' = [svc EXCEPT
           !.pc = "done",
           !.events = SvcEmit("processing_error", svc.caught),
           !.returned = TRUE,
           !.result = ErrorResult(svc.query, svc.caught)]

InitSvc ==
    /\ InitCorrelator
    /\ w = WInit0
    /\ f = FInit0
    /\ pkg = PkgInit0
    /\ svc \in ServiceCalls
    /\ shared = SharedInit0
    /\ frago = FragoInit0

NextSvc ==
    \/ SvcStart /\ UNCHANGED <<corrVars, w, f, pkg, shared, frago>>
    \/ \E guardrail \in get_security_guardrails :
           SvcGuardrailTrips(guardrail) /\ UNCHANGED <<corrVars, w, f, pkg, shared, frago>>
    \/ SvcAgentReturns /\ UNCHANGED <<corrVars, w, f, pkg, shared, frago>>
    \/ SvcAgentRaises /\ UNCHANGED <<corrVars, w, f, pkg, shared, frago>>
    \/ SvcBlocked /\ UNCHANGED <<corrVars, w, f, pkg, shared, frago>>
    \/ SvcError /\ UNCHANGED <<corrVars, w, f, pkg, shared, frago>>

SpecService == InitSvc /\ [][NextSvc]_vars

\* ------- src/mcoa_service.py, src/app.py: concurrent calls on one MCOAService
\* handle_query starts a thread for each query (app.py:187-190); every thread
\* calls process_query of the one global service, and handle_clear calls its
\* clear_history on the handler thread.
MaxClears == 1      \* clear_conversation events of one behaviour

QueryOf(t) == "query " \o ToString(t)
ResponseOf(t) == "response " \o ToString(t)

\* shared: the service's conversation_history and, for each worker, its place
\* in process_query, the input it prepared, the text of the agent's answer
\* and the events it gave to the callback.
SharedInit ==
    [conversation_history |-> <<>>,
     pc |-> [t \in Workers |-> "idle"],
     input_data |-> [t \in Workers |-> StrInput("")],
     response_text |-> [t \in Workers |-> ""],
     events |-> [t \in Workers |-> <<>>],
     clears |-> 0]

\* mcoa_service.py:184-201
PQStart(t) ==
    /\ shared.pc[t] = "idle"
    /\ shared' = [shared EXCEPT
           !.pc[t] = "run",
           !.events[t] = Append(@, "processing_start"),
           !.input_data[t] = InputData(shared.conversation_history, QueryOf(t))]

\* mcoa_service.py:205-213: Runner.run returns and the final output is made
\* a text, which may be empty.
PQRunReturns(t, text) ==
    /\ shared.pc[t] = "run"
    /\ shared' = [shared EXCEPT
           !.pc[t] = IF text # "" THEN "append_user" ELSE "complete",
           !.response_text[t] = text]

\* mcoa_service.py:215
PQAppendUser(t) ==
    /\ shared.pc[t] = "append_user"
    /\ shared' = [shared EXCEPT
           !.pc[t] = "append_assistant",
           !.conversation_history = Append(@, Turn(QueryOf(t), "user"))]

\* mcoa_service.py:216
PQAppendAssistant(t) ==
    /\ shared.pc[t] = "append_assistant"
    /\ shared' = [shared EXCEPT
           !.pc[t] = "complete",
           !.conversation_history =
               Append(@, Turn(shared.response_text[t], "assistant"))]

\* mcoa_service.py:218-230
PQComplete(t) ==
    /\ shared.pc[t] = "complete"
    /\ shared' = [shared EXCEPT
           !.pc[t] = "done",
           !.events[t] = Append(@, "processing_complete")]

\* mcoa_service.py:232-264: Runner.run raises, a guardrail having tripped
\* (guardrail_triggered) or for another reason (processing_error).
PQRunFails(t, event_type) ==
    /\ shared.pc[t] = "run"
    /\ shared' = [shared EXCEPT
           !.pc[t] = "done",
           !.events[t] = Append(@, event_type)]

\* MCOAService.clear_history (mcoa_service.py:279-286), called by
\* handle_clear (app.py:201-202).
ClearHistory ==
    /\ shared.clears < MaxClears
    /\ shared' = [shared EXCEPT
           !.conversation_history = <<>>,
           !.clears = @ + 1]

InitShared ==
    /\ InitCorrelator
    /\ w = WInit0
    /\ f = FInit0
    /\ pkg = PkgInit0
    /\ svc = SvcInit0
    /\ shared = SharedInit
    /\ frago = FragoInit0

NextShared ==
    \/ \E t \in Workers : PQStart(t) /\ UNCHANGED <<corrVars, w, f, pkg, svc, frago>>
    \/ \E t \in Workers : \E text \in {ResponseOf(t), ""} :
           PQRunReturns(t, text) /\ UNCHANGED <<corrVars, w, f, pkg, svc, frago>>
    \/ \E t \in Workers : PQAppendUser(t)
           /\ UNCHANGED <<corrVars, w, f, pkg, svc, frago>>
    \/ \E t \in Workers : PQAppendAssistant(t)
           /\ UNCHANGED <<corrVars, w, f, pkg, svc, frago>>
    \/ \E t \in Workers : PQComplete(t)
           /\ UNCHANGED <<corrVars, w, f, pkg, svc, frago>>
    \/ \E t \in Workers, e \in {"guardrail_triggered", "processing_error"} :
           PQRunFails(t, e) /\ UNCHANGED <<corrVars, w, f, pkg, svc, frago>>
    \/ ClearHistory /\ UNCHANGED <<corrVars, w, f, pkg, svc, frago>>

SpecShared == InitShared /\ [][NextShared]_vars

\* ------------------------------- src/app.py: handle_frago_processing
\* The methods class MCOAService defines (mcoa_service.py:127-286).
MCOAServiceMethods ==
    {"__init__", "process_query", "_get_violation_message", "clear_history"}

\* data.get('frago', ''): the text of the order, or the empty text.
FragoTexts == {"FRAGO 024-2024", ""}

\* frago: for each worker thread started by handle_frago_processing its place
\* in process_frago_async, the text it was given, the events it emitted and
\* whether an agent run was started for it; service is the global
\* mcoa_service as these threads see it.
FragoInit ==
    [pc |-> [t \in Workers |-> "idle"],
     frago_text |-> [t \in Workers |-> ""],
     emitted |-> [t \in Workers |-> <<>>],
     agent_run |-> [t \in Workers |-> "none"],
     service |-> None]

\* app.py:820-824 and 878-881: the handler reads the text and starts a thread.
HandleFrago(t, text) ==
    /\ frago.pc[t] = "idle"
    /\ frago' = [frago EXCEPT !.pc[t] = "prepare", !.frago_text[t] = text]

\* app.py:829-831
FragoPrepare(t) ==
    /\ frago.pc[t] = "prepare"
    /\ frago' = [frago EXCEPT !.pc[t] = "status", !.service = "MCOAService"]

\* app.py:834-838
FragoStatus(t) ==
    /\ frago.pc[t] = "status"
    /\ frago' = [frago EXCEPT !.pc[t] = "call",
                              !.emitted[t] = Append(@, "frago_status")]

\* app.py:841: mcoa_service.process_frago is looked up on the service; a
\* name the class does not define raises AttributeError before any agent run
\* is started.
FragoCall(t) ==
    /\ frago.pc[t] = "call"
    /\ IF "process_frago" \in MCOAServiceMethods
       THEN frago' = [frago EXCEPT !.pc[t] = "agent",
                                  !.agent_run[t] = "started"]
       ELSE frago' = [frago EXCEPT !.pc[t] = "except"]

\* app.py:871-876
FragoExcept(t) ==
    /\ frago.pc[t] = "except"
    /\ frago' = [frago EXCEPT !.pc[t] = "done",
                              !.emitted[t] = Append(@, "frago_error")]

InitFrago ==
    /\ InitCorrelator
    /\ w = WInit0
    /\ f = FInit0
    /\ pkg = PkgInit0
    /\ svc = SvcInit0
    /\ shared = SharedInit0
    /\ frago = FragoInit

NextFrago ==
    \/ \E t \in Workers, text \in FragoTexts :
           HandleFrago(t, text) /\ UNCHANGED <<corrVars, w, f, pkg, svc, shared>>
    \/ \E t \in Workers : FragoPrepare(t)
           /\ UNCHANGED <<corrVars, w, f, pkg, svc, shared>>
    \/ \E t \in Workers : FragoStatus(t)
           /\ UNCHANGED <<corrVars, w, f, pkg, svc, shared>>
    \/ \E t \in Workers : FragoCall(t)
           /\ UNCHANGED <<corrVars, w, f, pkg, svc, shared>>
    \/ \E t \in Workers : FragoExcept(t)
           /\ UNCHANGED <<corrVars, w, f, pkg, svc, shared>>

SpecFrago == InitFrago /\ [][NextFrago]_vars

\* ------------------------------------------------------------ claims
Count(seq, x) == Cardinality({i \in 1..Len(seq) : seq[i] = x})
Owner(r) == CHOOSE t \in Workers : uuid4(t) = r
IsOpen(r) == r \in DOMAIN run_histories /\ run_histories[r].end_time = None
IsClosed(r) == r \in DOMAIN run_histories /\ run_histories[r].end_time # None
ToolsOf(r) == run_histories[r].tools

\* C1: every entry of a run's tools list was written only by calls of
\* emit_tool_event made on the worker thread of that run, whatever the
\* interleaving of the concurrent queries.
C1_OwnThreadOnly ==
    \A r \in DOMAIN run_histories :
        \A i \in 1..Len(ToolsOf(r)) : ToolsOf(r)[i].by = {Owner(r)}

\* Two queries are open at the same time and each run holds an entry.
C1_Witness ==
    \E r1, r2 \in DOMAIN run_histories :
        /\ r1 # r2
        /\ IsOpen(r1) /\ IsOpen(r2)
        /\ Len(ToolsOf(r1)) > 0 /\ Len(ToolsOf(r2)) > 0
        /\ pc[Owner(r1)] = "run" /\ pc[Owner(r2)] = "run"

\* The tools list of the run bound to thread t (the empty list when none is).
BoundTools(t) ==
    IF thread_local[t] \in DOMAIN run_histories
    THEN run_histories[thread_local[t]].tools ELSE <<>>

IsUnmatched(e, n) == e.tool_name = n /\ e.duration = None

\* What a tool_complete for tool n with payload p must do to the list `old`.
CompleteEffect(old, new, n, p) ==
    IF \E i \in 1..Len(old) : IsUnmatched(old[i], n)
    THEN \E i \in 1..Len(old) :
            /\ IsUnmatched(old[i], n)
            /\ \A j \in (i + 1)..Len(old) : ~IsUnmatched(old[j], n)
            /\ Len(new) = Len(old)
            /\ \A j \in 1..Len(old) : j # i => new[j] = old[j]
            /\ new[i].duration = p /\ new[i].result = p /\ new[i].end_ts = "ts"
            /\ new[i].tool_name = old[i].tool_name
            /\ new[i].parameters = old[i].parameters
            /\ new[i].start_ts = old[i].start_ts
            /\ new[i].error = old[i].error
    ELSE new = old

\* C6: a tool_complete event writes duration, result and end_ts onto the most
\* recently appended entry of the bound run with the same tool_name and no
\* duration, and onto no other entry; with no such entry the list is unchanged.
C6_CompleteMatchesLastStart ==
    [][\A t \in Workers, n \in ToolNames :
          ToolEvent(t, "tool_complete", n) =>
              /\ CompleteEffect(BoundTools(t), BoundTools(t)', n, ToString(nevents'))
              /\ \A r \in DOMAIN run_histories :
                    r # thread_local[t] => run_histories'[r] = run_histories[r]]_vars

\* Two starts of one tool, and the complete went to the later one.
C6_Witness ==
    \E r \in DOMAIN run_histories :
        \E i, j \in 1..Len(ToolsOf(r)) :
            /\ i < j
            /\ ToolsOf(r)[i].tool_name = ToolsOf(r)[j].tool_name
            /\ ToolsOf(r)[i].duration = None /\ ToolsOf(r)[i].error = None
            /\ ToolsOf(r)[j].result # None

\* What the claim says a tool_error for tool n with payload p does to `old`
\* when `old` holds an unmatched start entry of n.
ErrorMatchEffect(old, new, n, p) ==
    IF \E i \in 1..Len(old) : IsUnmatched(old[i], n)
    THEN \E i \in 1..Len(old) :
            /\ IsUnmatched(old[i], n)
            /\ \A j \in (i + 1)..Len(old) : ~IsUnmatched(old[j], n)
            /\ Len(new) = Len(old)
            /\ new[i].duration = p /\ new[i].error = p
    ELSE TRUE

\* C7: a tool_error event is matched like a tool_complete: the most recent
\* unmatched start entry of that tool gets the duration and the error, and the
\* tools list gains no entry.
C7_ErrorMatchesLastStart ==
    [][\A t \in Workers, n \in ToolNames :
          ToolEvent(t, "tool_error", n) =>
              ErrorMatchEffect(BoundTools(t), BoundTools(t)', n, ToString(nevents'))]_vars

\* C8: emit_tool_event called on a thread that has no run id bound, or whose
\* id is no key of run_histories, leaves run_histories unchanged.
C8_UnboundEventDropped ==
    [][\A t \in Threads :
          (/\ \/ thread_local[t] = None
              \/ thread_local[t] \notin DOMAIN run_histories
           /\ \/ \E e \in ToolEventTypes, n \in ToolNames : ToolEvent(t, e, n)
              \/ t = HandlerThread /\ HandleClear)
          => run_histories' = run_histories]_vars

\* Tool events were delivered while a run was open and before any worker
\* reached its agent run: all of them came from the thread without a run id.
C8_Witness ==
    /\ nevents > 0
    /\ \E r \in DOMAIN run_histories : IsOpen(r)
    /\ \A t \in Workers : pc[t] \in {"idle", "prepare", "bind", "create", "agent"}
    /\ \A r \in DOMAIN run_histories : ToolsOf(r) = <<>>

\* C9: a worker that has ended carries no run id, and a thread carries a run
\* id only between binding it and the end of its finally block.
C9_UnboundAtExit ==
    \A t \in Threads :
        /\ pc[t] = "done" => thread_local[t] = None
        /\ thread_local[t] # None =>
              /\ t \in Workers
              /\ thread_local[t] = uuid4(t)
              /\ pc[t] \in {"create", "agent", "run", "stats_calls", "stats_avg",
                            "summary", "except", "finally"}

\* One worker ended after a run summary, another after a query error.
C9_Witness ==
    \E t, u \in Workers :
        /\ pc[t] = "done" /\ pc[u] = "done"
        /\ Count(emitted[t], "run_summary") = 1
        /\ Count(emitted[u], "query_error") = 1

\* C10: a run record is created open and empty, is closed at most once with
\* response_preview, response_time and end_time set together, is never
\* changed after that, and no record is ever removed.
C10_RunLifecycle ==
    [][/\ \A r \in DOMAIN run_histories :
             /\ r \in DOMAIN run_histories'
             /\ IsClosed(r) => run_histories'[r] = run_histories[r]
       /\ \A r \in DOMAIN run_histories' :
             /\ r \notin DOMAIN run_histories =>
                   /\ run_histories'[r].tools = <<>>
                   /\ run_histories'[r].end_time = None
             /\ (run_histories'[r].end_time # None) <=>
                   (run_histories'[r].response_preview # None)
             /\ (run_histories'[r].end_time # None) <=>
                   (run_histories'[r].response_time # None)]_vars

\* A closed run that holds an entry, its worker ended, beside an open run
\* that received an entry.
C10_Witness ==
    \E r1, r2 \in DOMAIN run_histories :
        /\ IsClosed(r1) /\ Len(ToolsOf(r1)) > 0 /\ pc[Owner(r1)] = "done"
        /\ IsOpen(r2) /\ Len(ToolsOf(r2)) > 0

Types(calls) == [i \in 1..Len(calls) |-> calls[i].event_type]
NoneRaised(calls) == \A i \in 1..Len(calls) : ~calls[i].raised
Position(seq, x) == CHOOSE i \in 1..Len(seq) : seq[i] = x

\* C4 as stated: whatever the callback does when called, a finished call of the
\* wrapper has called it with tool_start and then with exactly one of
\* tool_complete and tool_error.
C4_Original ==
    (w.pc = "done" /\ w.callback # "unset") =>
        Types(w.calls) \in {<<"tool_start", "tool_complete">>,
                            <<"tool_start", "tool_error">>}

\* C4, amended: with a callback set, a finished call of the wrapper has called
\* it at most three times, first with tool_start, with each event type at most
\* once and in the order start, complete, error; tool_complete and tool_error
\* both occur only when the tool_complete call raised; and when every call of
\* the callback returned, the calls are tool_start followed by exactly one of
\* tool_complete (the tool returned) and tool_error (the tool raised).
C4_StartThenOneOutcome ==
    (w.pc = "done" /\ w.callback # "unset") =>
        LET ty == Types(w.calls)
        IN /\ Len(ty) \in 1..3
           /\ ty[1] = "tool_start"
           /\ \A e \in ToolEventTypes : Count(ty, e) <= 1
           /\ (Count(ty, "tool_complete") = 1 /\ Count(ty, "tool_error") = 1) =>
                  /\ ty = <<"tool_start", "tool_complete", "tool_error">>
                  /\ w.calls[Position(ty, "tool_complete")].raised
           /\ NoneRaised(w.calls) =>
                  ty = IF w.behaviour.kind = "return"
                       THEN <<"tool_start", "tool_complete">>
                       ELSE <<"tool_start", "tool_error">>

\* The tool raised, and a callback that may raise returned at both its calls.
C4_Witness ==
    /\ w.pc = "done"
    /\ w.callback = "unreliable"
    /\ w.behaviour.kind = "raise"
    /\ NoneRaised(w.calls)
    /\ Types(w.calls) = <<"tool_start", "tool_error">>

\* C5: with no callback set, or with one that returns, the wrapper calls the
\* tool once with the arguments it was given, returns the tool's value
\* unchanged, and re-raises the tool's exception after tool_error was emitted
\* with it; with no callback set nothing is emitted at any point.
C5_Transparent ==
    /\ w.pc # "off" /\ w.callback = "unset" => w.calls = <<>>
    /\ (w.pc = "done" /\ NoneRaised(w.calls)) =>
          /\ w.tool_calls = <<w.args>>
          /\ w.behaviour.kind = "return" =>
                w.outcome = [kind |-> "return", value |-> w.behaviour.result,
                             exc |-> None]
          /\ w.behaviour.kind = "raise" =>
                /\ w.outcome = [kind |-> "raise", value |-> NoResult,
                                exc |-> w.behaviour.exc]
                /\ w.callback # "unset" =>
                      /\ w.calls[Len(w.calls)].event_type = "tool_error"
                      /\ w.calls[Len(w.calls)].data.error = w.behaviour.exc

\* The tool was given an argument longer than the cut of the event parameters
\* and raised; the callback was set and the caller got the tool's exception.
C5_Witness ==
    /\ w.pc = "done"
    /\ w.callback = "returns"
    /\ w.behaviour.kind = "raise"
    /\ w.outcome.exc = w.behaviour.exc
    /\ \E i \in 1..Len(w.args) : Len(w.args[i]) > 100
    /\ w.tool_calls = <<w.args>>

\* C2: the decision is GO exactly when the score is at least 7 and
\* sustainment_ok holds, GO WITH CAVEATS exactly when it is not GO and the
\* score is at least 5, and NO-GO otherwise; the documented call with a high
\* threat and the alternate net down scores 7 and is GO, and the one with few
\* vehicles as well scores 6 and is GO WITH CAVEATS, both without sustainment.
C2_DecisionThresholds ==
    (f.pc = "done" /\ ~f.out.raised) =>
        LET o == f.out
        IN /\ o.decision \in {"GO", "GO WITH CAVEATS", "NO-GO"}
           /\ o.decision = "GO" <=> (o.score >= 7 /\ o.sustainment_ok)
           /\ o.decision = "GO WITH CAVEATS" <=>
                  (o.decision # "GO" /\ o.score >= 5)
           /\ o.decision = "NO-GO" <=> (o.decision # "GO" /\ o.score < 5)
           /\ f.in.sustainment = NoSustainment =>
                  /\ o.sustainment_ok
                  /\ o.score = 7 => o.decision = "GO"
                  /\ o.score = 6 => o.decision = "GO WITH CAVEATS"
           /\ f.in = Scenario(HIGH, DOWN, 8) => o.score = 7
           /\ f.in = Scenario(HIGH, DOWN, 2) => o.score = 6

\* A score of at least 7 with a sustainment shortfall: not GO.
C2_Witness ==
    /\ f.pc = "done"
    /\ f.out.score >= 7
    /\ ~f.out.sustainment_ok
    /\ f.out.decision = "GO WITH CAVEATS"

IsPercent(v) ==
    \/ v.tag = "int"
    \/ /\ v.tag = "str"
       /\ Len(v.s) >= 2
       /\ v.s[Len(v.s)] = "%"
       /\ \A i \in 1..(Len(v.s) - 1) : v.s[i] \in DOMAIN DigitValue
PercentOf(v) ==
    IF v.tag = "int" THEN v.n ELSE IntOf(SubSeq(v.s, 1, Len(v.s) - 1))

\* Every field the score reads is present and of the type it is documented
\* with; sustainment is either not given or given with both requirements.
WellTyped(in) ==
    /\ \A i \in 1..(Len(Snapshots) - 1) : in[Snapshots[i]].tag = "dict"
    /\ in.weather.wind_speed_mph.tag = "int"
    /\ in.weather.visibility_meters.tag = "int"
    /\ in.terrain.mobility_assessment.tag = "str"
    /\ in.threat.threat_level.tag = "str"
    /\ in.readiness.personnel_strength.tag = "dict"
    /\ IsPercent(in.readiness.personnel_strength.readiness_percent)
    /\ IsPercent(in.readiness.equipment_readiness)
    /\ in.vehicle_status.operational.tag = "int"
    /\ in.vehicle_status.total.tag = "int"
    /\ in.comms.primary_net.tag = "dict"
    /\ in.comms.primary_net.status.tag = "str"
    /\ in.comms.alternate_net.tag = "dict"
    /\ in.comms.alternate_net.status.tag = "str"
    /\ in.supply_mres.quantity.tag = "int"
    /\ in.supply_fuel.quantity.tag = "int"
    /\ \/ in.sustainment = NoSustainment
       \/ /\ in.sustainment.tag = "dict"
          /\ ~in.sustainment.empty
          /\ in.sustainment.requirements.tag = "dict"
          /\ in.sustainment.requirements.mres_required.tag = "int"
          /\ in.sustainment.requirements.fuel_required_gallons.tag = "int"

SustainmentMet(in) ==
    /\ in.sustainment.tag = "dict"
    /\ in.supply_mres.quantity.n >= in.sustainment.requirements.mres_required.n
    /\ in.supply_fuel.quantity.n
           >= in.sustainment.requirements.fuel_required_gallons.n

One(b) == IF b THEN 1 ELSE 0

\* C3: for an input whose fields are all present and well typed the score is
\* the sum of the documented terms, each a function of its own fields.
C3_ScoreIsSumOfTerms ==
    (f.pc = "done" /\ WellTyped(f.in)) =>
        LET in == f.in
            level == in.threat.threat_level.s
        IN /\ ~f.out.raised
           /\ f.out.score =
                One(in.weather.wind_speed_mph.n <= 20)
                + One(in.weather.visibility_meters.n >= 5000)
                + One(Lower(in.terrain.mobility_assessment.s) = good)
                + (IF level = LOW THEN 2 ELSE IF level = MODERATE THEN 1 ELSE 0)
                + One(PercentOf(
                        in.readiness.personnel_strength.readiness_percent) >= 90)
                + One(PercentOf(in.readiness.equipment_readiness) >= 85)
                + One(/\ in.vehicle_status.total.n # 0
                      /\ 10 * in.vehicle_status.operational.n
                             >= 7 * in.vehicle_status.total.n)
                + One(in.comms.primary_net.status.s = OPERATIONAL)
                + One(in.comms.alternate_net.status.s = OPERATIONAL)
                + 2 * One(SustainmentMet(in))

\* Every term at its maximum, the mobility in capitals, sustainment met.
C3_Witness ==
    /\ f.pc = "done"
    /\ WellTyped(f.in)
    /\ f.in.terrain.mobility_assessment = StrVal(GOOD)
    /\ SustainmentMet(f.in)
    /\ f.out.score = 12

\* C11: whatever the shape of the snapshots, the call completes and returns a
\* result with a narrative, a decision, a score and sustainment_ok.
C11_NeverRaises ==
    f.pc = "done" =>
        /\ ~f.out.raised
        /\ f.out.narrative # <<>>
        /\ f.out.decision \in {"GO", "GO WITH CAVEATS", "NO-GO"}
        /\ f.out.score \in 0..12
        /\ f.out.sustainment_ok \in BOOLEAN

Has(v) == v.tag # "absent"
IsInt(v) == v.tag = "int"

\* The points that the fields present in the snapshots earn, a field that is
\* absent or of the wrong type earning none.
PresentPoints(in) ==
    LET ps == in.readiness.personnel_strength
        pr == ps.readiness_percent
        er == in.readiness.equipment_readiness
        op == in.vehicle_status.operational
        total == in.vehicle_status.total
        req == in.sustainment.requirements
    IN One(/\ in.weather.tag = "dict"
           /\ IsInt(in.weather.wind_speed_mph)
           /\ in.weather.wind_speed_mph.n <= 20)
       + One(/\ in.weather.tag = "dict"
             /\ IsInt(in.weather.visibility_meters)
             /\ in.weather.visibility_meters.n >= 5000)
       + One(/\ in.terrain.tag = "dict"
             /\ in.terrain.mobility_assessment.tag = "str"
             /\ Lower(in.terrain.mobility_assessment.s) = good)
       + (IF in.threat.tag # "dict" THEN 0
          ELSE IF in.threat.threat_level = StrVal(LOW) THEN 2
          ELSE IF in.threat.threat_level = StrVal(MODERATE) THEN 1
          ELSE 0)
       + One(/\ in.readiness.tag = "dict" /\ ps.tag = "dict"
             /\ Has(pr) /\ int_percent(pr).ok /\ int_percent(pr).n >= 90)
       + One(/\ in.readiness.tag = "dict"
             /\ Has(er) /\ int_percent(er).ok /\ int_percent(er).n >= 85)
       + One(/\ in.vehicle_status.tag = "dict"
             /\ IsInt(op) /\ IsInt(total) /\ total.n # 0
             /\ 10 * op.n >= 7 * total.n)
       + One(/\ in.comms.tag = "dict" /\ in.comms.primary_net.tag = "dict"
             /\ in.comms.primary_net.status = StrVal(OPERATIONAL))
       + One(/\ in.comms.tag = "dict" /\ in.comms.alternate_net.tag = "dict"
             /\ in.comms.alternate_net.status = StrVal(OPERATIONAL))
       + 2 * One(/\ in.sustainment.tag = "dict" /\ req.tag = "dict"
                 /\ in.supply_mres.tag = "dict" /\ in.supply_fuel.tag = "dict"
                 /\ IsInt(req.mres_required) /\ IsInt(req.fuel_required_gallons)
                 /\ IsInt(in.supply_mres.quantity)
                 /\ IsInt(in.supply_fuel.quantity)
                 /\ in.supply_mres.quantity.n >= req.mres_required.n
                 /\ in.supply_fuel.quantity.n >= req.fuel_required_gallons.n)

\* C12: a field that is absent adds nothing, so the score is never above the
\* points that the fields present in the snapshots earn.
C12_AbsentAddsNothing ==
    (f.pc = "done" /\ ~f.out.raised) => f.out.score <= PresentPoints(f.in)

\* Some on-hand quantity is an integer below its integer requirement.
Shortfall(in) ==
    LET req == in.sustainment.requirements
    IN /\ Supplied(in.sustainment)
       /\ req.tag = "dict"
       /\ \/ /\ in.supply_mres.tag = "dict"
             /\ IsInt(in.supply_mres.quantity) /\ IsInt(req.mres_required)
             /\ in.supply_mres.quantity.n < req.mres_required.n
          \/ /\ in.supply_fuel.tag = "dict"
             /\ IsInt(in.supply_fuel.quantity)
             /\ IsInt(req.fuel_required_gallons)
             /\ in.supply_fuel.quantity.n < req.fuel_required_gallons.n

\* C13: with a sustainment record supplied and an on-hand quantity below its
\* requirement, sustainment_ok is false, the sustainment block adds no points
\* and the decision is not GO.
C13_ShortfallBlocksGo ==
    (f.pc = "done" /\ ~f.out.raised /\ Shortfall(f.in)) =>
        /\ ~f.out.sustainment_ok
        /\ f.out.decision # "GO"
        /\ f.out.score =
               compute_operation_feasibility(
                   [f.in EXCEPT !.sustainment = NoSustainment]).score

Rank(decision) ==
    CASE decision = "NO-GO" -> 0
      [] decision = "GO WITH CAVEATS" -> 1
      [] decision = "GO" -> 2

NotWorse(a, b) ==
    (/\ ~a.raised /\ ~b.raised
     /\ a.sustainment_ok = b.sustainment_ok
     /\ a.score <= b.score) => Rank(a.decision) <= Rank(b.decision)

\* C14: of two inputs that differ in one snapshot, with sustainment_ok equal,
\* the one with the larger score has a decision that is not worse in the order
\* NO-GO < GO WITH CAVEATS < GO.
C14_DecisionMonotonic ==
    [][(f.pc = "input" /\ f'.pc = "input") =>
           \A a \in {compute_operation_feasibility(f.in)},
              b \in {compute_operation_feasibility(f'.in)} :
               NotWorse(a, b) /\ NotWorse(b, a)]_vars

\* The scenario with few vehicles, its vehicles raised to 7 of 10: the score
\* goes from 6 to 7 and the decision from GO WITH CAVEATS to GO.
C14_Witness ==
    /\ f.pc = "done"
    /\ f.changed = 1
    /\ f.in = [Scenario(HIGH, DOWN, 2) EXCEPT
                   !.vehicle_status = VehicleStatus(IntVal(7), IntVal(10))]
    /\ f.out.score = 7
    /\ f.out.decision = "GO"

\* The number of issues that contain the keyword, in any case.
Matching(issues, keyword) ==
    Cardinality({i \in 1..Len(issues) : Contains(Lower(issues[i]), keyword)})

\* C15: the score is 10 less 3 for each issue containing fuel, 2 for each
\* containing vehicle and 2 for each containing personnel, in any case, an
\* issue with several keywords counting for each; it is a function of the
\* issues alone, and for 'fuel shortage' and 'personnel gap' it is 5.
C15_ScoreIsTenLessPenalties ==
    pkg.pc = "done" =>
        /\ pkg.out.package.score =
               10 - 3 * Matching(pkg.issues, fuel)
                  - 2 * Matching(pkg.issues, vehicle)
                  - 2 * Matching(pkg.issues, personnel)
        /\ pkg.issues = <<FuelShortage, PersonnelGap>> =>
               pkg.out.package.score = 5

\* Two issues, one of them with all three keywords in capitals: 10 - 7 - 3.
C15_Witness ==
    /\ pkg.pc = "done"
    /\ pkg.issues = <<FuelVehiclesPersonnel, FuelShortage>>
    /\ pkg.assessments = "feasibility: GO"
    /\ pkg.recommendations # <<>>
    /\ pkg.out.package.score = 0

\* C16: GO exactly for a score of at least 8, GO WITH CAVEATS exactly for 6
\* and 7, NO-GO exactly below 6; the risk is MODERATE exactly for a score of
\* at least 6 and HIGH otherwise, so HIGH and requires_immediate_action go
\* with NO-GO and with nothing else.
C16_PackageDecision ==
    pkg.pc = "done" =>
        LET o == pkg.out
            score == o.package.score
        IN /\ o.package.go_no_go = o.decision
           /\ o.decision = "GO" <=> score >= 8
           /\ o.decision = "GO WITH CAVEATS" <=> (6 <= score /\ score < 8)
           /\ o.decision = "NO-GO" <=> score < 6
           /\ o.package.risk_assessment = "MODERATE" <=> score >= 6
           /\ o.package.risk_assessment = "HIGH" <=> score < 6
           /\ o.package.risk_assessment = "HIGH" <=> o.decision = "NO-GO"
           /\ o.requires_immediate_action <=> o.decision = "NO-GO"

\* A score of exactly 8: still GO, risk MODERATE.
C16_Witness ==
    /\ pkg.pc = "done"
    /\ pkg.out.package.score = 8
    /\ pkg.out.decision = "GO"
    /\ pkg.out.package.risk_assessment = "MODERATE"
    /\ ~pkg.out.requires_immediate_action

AnyContains(issues, keywords) ==
    \E i \in 1..Len(issues) : \E k \in keywords :
        Contains(Lower(issues[i]), k)

\* C17: required_reports holds no report twice, and holds LOGSTAT exactly
\* when some issue contains fuel or supply, PERSTAT exactly when some issue
\* contains personnel or casualty, SPOT exactly when some issue contains
\* enemy or contact, and nothing else.
C17_RequiredReports ==
    pkg.pc = "done" =>
        LET reports == pkg.out.package.required_reports
        IN /\ \A i, j \in 1..Len(reports) : reports[i] = reports[j] => i = j
           /\ SetOf(reports) \subseteq {"LOGSTAT", "PERSTAT", "SPOT"}
           /\ "LOGSTAT" \in SetOf(reports) <=>
                  AnyContains(pkg.issues, {fuel, supply})
           /\ "PERSTAT" \in SetOf(reports) <=>
                  AnyContains(pkg.issues, {personnel, casualty})
           /\ "SPOT" \in SetOf(reports) <=>
                  AnyContains(pkg.issues, {enemy, contact})

\* Two issues that both ask for LOGSTAT and PERSTAT: each is listed once.
C17_Witness ==
    /\ pkg.pc = "done"
    /\ pkg.issues = <<FuelVehiclesPersonnel, FuelVehiclesPersonnel>>
    /\ pkg.out.package.required_reports = <<"PERSTAT", "LOGSTAT">>

\* C18: a failure of the agent run does not escape process_query: when a
\* guardrail tripped the call returns success false with guardrail_triggered,
\* when the run raised another exception it returns success false with error
\* and the response 'Error processing query: ' followed by the exception's
\* text, and in both cases conversation_history is as it was before the call.
C18_AgentFailureReturned ==
    /\ svc.pc \in {"blocked", "error"} =>
           svc.conversation_history = svc.history0
    /\ (svc.pc = "done" /\ svc.tripped # None) =>
           /\ svc.returned
           /\ ~svc.result.success
           /\ svc.result.guardrail_triggered = "True"
           /\ svc.conversation_history = svc.history0
    /\ (svc.pc = "done" /\ svc.tripped = None /\ svc.agent.kind = "raise") =>
           /\ svc.returned
           /\ ~svc.result.success
           /\ svc.result.error = "True"
           /\ svc.result.response =
                  "Error processing query: " \o svc.agent.exc
           /\ svc.conversation_history = svc.history0

\* The agent run raised on a query that no guardrail blocks, the history
\* holding an earlier exchange.
C18_Witness ==
    /\ svc.pc = "done"
    /\ svc.query = SupplyQuery
    /\ svc.agent.exc = "Connection error."
    /\ svc.history0 # <<>>
    /\ svc.result.error = "True"
    /\ svc.returned

CategoryMessage(guardrail) ==
    CASE guardrail = "classification" ->
             "CLASSIFICATION WARNING: Request for classified information blocked."
      [] guardrail = "pii" ->
             "PII PROTECTION: Personal information request blocked."
      [] guardrail = "opsec" ->
             "OPSEC VIOLATION: Real operational data request blocked."

\* C19: the message returned for a blocked query is the message of the
\* category of the guardrail that tripped.
C19_MessageNamesCategory ==
    (svc.pc = "done" /\ svc.tripped # None) =>
        svc.result.response =
            "[SECURITY BLOCK] " \o CategoryMessage(svc.tripped)

\* C20: the run of a query whose text contains 'ssn' is rejected by a
\* guardrail.
C20_SsnQueryBlocked ==
    (svc.pc = "done" /\ Contains(Lower(Chars(svc.query)), kw_ssn)) =>
        /\ svc.tripped # None
        /\ svc.result.guardrail_triggered = "True"

\* The serial of the tool_start or tool_error event that appended entry e.
SerialOf(e) ==
    LET p == IF e.parameters # None THEN e.parameters ELSE e.error
    IN CHOOSE n \in 1..nevents : ToString(n) = p

\* One step on the tools list of a run: nothing, one entry appended, or one
\* entry completed in place.
ToolsStep(old, new) ==
    \/ new = old
    \/ Len(new) = Len(old) + 1 /\ SubSeq(new, 1, Len(old)) = old
    \/ /\ Len(new) = Len(old)
       /\ \E i \in 1..Len(old) :
              /\ \A j \in 1..Len(old) : j # i => new[j] = old[j]
              /\ old[i].duration = None
              /\ new[i].parameters = old[i].parameters

\* C21: the tools list of a run is written only by the worker bound to the
\* run, its entries stand in the order in which their tool_start and
\* tool_error events were emitted, each step appends one entry at the end or
\* completes one entry, and a concurrent query only adds a key of its own to
\* run_histories without touching the record of another run.
C21_RunToolsInEmissionOrder ==
    /\ [](\A r \in DOMAIN run_histories :
             /\ r \in RunIds
             /\ run_histories[r].run_id = r
             /\ run_histories[r].query = ToString(Owner(r))
             /\ \A i \in 1..Len(ToolsOf(r)) : ToolsOf(r)[i].by \subseteq {Owner(r)}
             /\ \A i, j \in 1..Len(ToolsOf(r)) :
                    i < j => SerialOf(ToolsOf(r)[i]) < SerialOf(ToolsOf(r)[j]))
    /\ [][/\ DOMAIN run_histories \subseteq DOMAIN run_histories'
          /\ Cardinality(DOMAIN run_histories' \ DOMAIN run_histories) <= 1
          /\ \A r \in DOMAIN run_histories :
                 /\ ToolsStep(ToolsOf(r), run_histories'[r].tools)
                 /\ run_histories'[r].tools # ToolsOf(r) =>
                        \A r2 \in DOMAIN run_histories \ {r} :
                            run_histories'[r2] = run_histories[r2]]_vars

\* Both queries have a run record, and one run holds two entries appended by
\* its worker while the other query was running.
C21_Witness ==
    \E r1, r2 \in DOMAIN run_histories :
        /\ r1 # r2
        /\ Len(ToolsOf(r1)) = 2
        /\ pc[Owner(r1)] = "run" /\ pc[Owner(r2)] = "run"

\* A value that can stand in a comparison with an integer: an integer, or the
\* integer default of a key that is absent.
Comparable(v) == v.tag \in {"int", "absent"}

\* Whether reading or comparing a field of the criterion raises.
WeatherFails(in) ==
    \/ in.weather.tag # "dict"
    \/ ~Comparable(in.weather.wind_speed_mph)
    \/ ~Comparable(in.weather.visibility_meters)
TerrainFails(in) ==
    \/ in.terrain.tag # "dict"
    \/ in.terrain.mobility_assessment.tag \notin {"str", "absent"}
ThreatFails(in) ==
    \/ in.threat.tag # "dict"
    \/ in.threat.threat_level.tag = "list"
Parses(v) == v.tag = "absent" \/ IsPercent(v) \/ v = StrVal(<<>>)
ReadinessFails(in) ==
    \/ in.readiness.tag # "dict"
    \/ in.readiness.personnel_strength.tag = "none"
    \/ ~Parses(in.readiness.personnel_strength.readiness_percent)
    \/ ~Parses(in.readiness.equipment_readiness)
VehiclesFail(in) ==
    \/ in.vehicle_status.tag # "dict"
    \/ /\ Truthy(Get(in.vehicle_status.total, IntVal(1)))
       /\ ~Comparable(in.vehicle_status.operational)
CommsFail(in) ==
    \/ in.comms.tag # "dict"
    \/ in.comms.primary_net.tag = "none"
    \/ in.comms.alternate_net.tag = "none"

\* The sustainment block is entered and one of its reads or comparisons
\* raises: a snapshot that is not a dict, or a quantity that is compared
\* with None.  The fuel comparison is made only when the MREs suffice.
SustainmentFails(in) ==
    LET req == in.sustainment.requirements
        mres_have == Get(in.supply_mres.quantity, IntVal(0))
        mres_req == Get(req.mres_required, IntVal(0))
    IN /\ Supplied(in.sustainment)
       /\ \/ req.tag = "none"
          \/ in.supply_mres.tag # "dict"
          \/ in.supply_fuel.tag # "dict"
          \/ ~IsInt(mres_have) \/ ~IsInt(mres_req)
          \/ /\ mres_have.n >= mres_req.n
             /\ \/ ~Comparable(in.supply_fuel.quantity)
                \/ ~Comparable(req.fuel_required_gallons)

\* The score of the input with one snapshot replaced by one that earns nothing.
ScoreWithout(in, k, zero) ==
    compute_operation_feasibility([in EXCEPT ![k] = zero]).score

\* C22: a criterion one of whose fields fails to be read or compared adds no
\* point at all: the score is the score of the same input with that
\* criterion's snapshot replaced by one that earns nothing.
C22_FailedCriterionAddsNothing ==
    (f.pc = "done" /\ ~f.out.raised) =>
        /\ WeatherFails(f.in) =>
               f.out.score = ScoreWithout(f.in, "weather",
                                 Weather(IntVal(21), IntVal(4999)))
        /\ TerrainFails(f.in) =>
               f.out.score = ScoreWithout(f.in, "terrain", Terrain(StrVal(Fair)))
        /\ ThreatFails(f.in) =>
               f.out.score = ScoreWithout(f.in, "threat", Threat(StrVal(HIGH)))
        /\ ReadinessFails(f.in) =>
               f.out.score = ScoreWithout(f.in, "readiness",
                                 Readiness(PersonnelStrength("dict", IntVal(0)),
                                           IntVal(0)))
        /\ VehiclesFail(f.in) =>
               f.out.score = ScoreWithout(f.in, "vehicle_status",
                                 VehicleStatus(IntVal(0), IntVal(10)))
        /\ CommsFail(f.in) =>
               f.out.score = ScoreWithout(f.in, "comms",
                                 Comms(Net("dict", StrVal(DOWN)),
                                       Net("dict", StrVal(DOWN))))
        /\ SustainmentFails(f.in) =>
               f.out.score = ScoreWithout(f.in, "sustainment", NoSustainment)

\* The readiness snapshot with every percent text that does not parse
\* replaced by 0.
ParsedOrZero(v) == IF Parses(v) THEN v ELSE IntVal(0)
ReadinessAsParsed(readiness) ==
    [readiness EXCEPT
        !.personnel_strength.readiness_percent = ParsedOrZero(@),
        !.equipment_readiness = ParsedOrZero(@)]

\* C23: a readiness percent that does not parse counts as 0 and earns no
\* point, the other readiness field being scored on its own value: the score
\* is the score of the input with each such text replaced by 0.
C23_UnparsedPercentIsZero ==
    (/\ f.pc = "done" /\ ~f.out.raised
     /\ f.in.readiness.tag = "dict"
     /\ f.in.readiness.personnel_strength.tag # "none") =>
        f.out.score = ScoreWithout(f.in, "readiness",
                          ReadinessAsParsed(f.in.readiness))

\* C24: a returned score is an integer from 0 to 12; it is above 10 only
\* with a sustainment record supplied and met, and without a sustainment
\* record it is at most 10.
C24_ScoreRange ==
    (f.pc = "done" /\ ~f.out.raised) =>
        /\ f.out.score \in 0..12
        /\ f.out.score > 10 =>
               /\ Supplied(f.in.sustainment)
               /\ f.out.sustainment_ok
               /\ ~Shortfall(f.in)
               /\ ~SustainmentFails(f.in)
        /\ ~Supplied(f.in.sustainment) => f.out.score <= 10

\* The scenario in which every criterion earns its points, with a sustainment
\* record that the supplies meet: the score is 12.
C24_Witness ==
    /\ f.pc = "done"
    /\ Supplied(f.in.sustainment)
    /\ f.out.score = 12
    /\ f.out.sustainment_ok

\* C28: when the sustainment block is entered and a read or comparison in it
\* raises, the call that returns has added no sustainment points and left
\* sustainment_ok true, so that the decision is GO exactly when the score of
\* the other criteria is at least 7.
C28_SustainmentErrorKeepsOk ==
    (f.pc = "done" /\ ~f.out.raised /\ SustainmentFails(f.in)) =>
        /\ f.out.sustainment_ok
        /\ f.out.score = ScoreWithout(f.in, "sustainment", NoSustainment)
        /\ f.out.decision = "GO" <=> f.out.score >= 7

\* A sustainment record whose fuel requirement is None, with the MREs on hand
\* sufficient: the comparison raises and the decision is GO.
C28_Witness ==
    /\ f.pc = "done"
    /\ ~f.out.raised
    /\ SustainmentFails(f.in)
    /\ f.in.sustainment.requirements.tag = "dict"
    /\ f.out.decision = "GO"
    /\ f.out.score >= 7 /\ f.out.score <= 10

\* C25: the score of the package returned by generate_decision_package lies
\* between 0 and 10.
C25_PackageScoreInRange ==
    pkg.pc = "done" => pkg.out.package.score \in 0..10

\* C26: once the agent call of a query has returned, the query does not go to
\* the error handler, and it reaches its end with one query_response and one
\* run_summary emitted, no query_error, and its run record closed, whatever
\* the other queries and clear_conversation do in between.
C26_ReturnedQueryCompletes ==
    [][\A t \in Workers :
          pc[t] \in {"stats_calls", "stats_avg", "summary"} =>
              /\ pc'[t] # "except"
              /\ pc'[t] = "finally" =>
                     /\ Count(emitted'[t], "query_response") = 1
                     /\ Count(emitted'[t], "run_summary") = 1
                     /\ Count(emitted'[t], "query_error") = 0
                     /\ uuid4(t) \in DOMAIN run_histories'
                     /\ run_histories'[uuid4(t)].end_time # None]_vars

\* conversation_history is a list of pairs, each the query of one call
\* followed by the response of the same call.
Paired(history) ==
    /\ Len(history) % 2 = 0
    /\ \A k \in 1..(Len(history) \div 2) :
           \E t \in Workers :
               /\ history[2 * k - 1] = Turn(QueryOf(t), "user")
               /\ history[2 * k] = Turn(ResponseOf(t), "assistant")

\* C27: whenever no call stands between its two appends, conversation_history
\* is a list of (query, response) pairs of one call each, whatever the
\* interleaving of the concurrent calls and of clear_history.
C27_HistoryIsPairs ==
    (\A t \in Workers : shared.pc[t] # "append_assistant") =>
        Paired(shared.conversation_history)

\* The event that goes with a returned result.
EventOf(result) ==
    IF result.success THEN "processing_complete"
    ELSE IF result.guardrail_triggered = "True" THEN "guardrail_triggered"
    ELSE "processing_error"

\* C29: a call made with a callback gives it processing_start first and,
\* by the time it returns, exactly one more event, the one of
\* processing_complete, guardrail_triggered and processing_error that goes
\* with the returned result; conversation_history is the history before the
\* call followed by the query and its response when the call succeeded with
\* a response text that is not empty, and the history before the call
\* otherwise.
C29_StartThenOneOutcome ==
    /\ (svc.pc \notin {"off", "start"} /\ svc.callback) =>
           /\ Len(svc.events) >= 1
           /\ svc.events[1].event_type = "processing_start"
           /\ \A i \in 2..Len(svc.events) :
                  svc.events[i].event_type # "processing_start"
    /\ (svc.pc \in {"run", "blocked", "error"} /\ svc.callback) =>
           Len(svc.events) = 1
    /\ svc.pc = "done" =>
           /\ svc.returned
           /\ svc.callback =>
                  /\ Len(svc.events) = 2
                  /\ svc.events[2].event_type = EventOf(svc.result)
           /\ svc.conversation_history =
                  IF svc.result.success /\ svc.result.response # ""
                  THEN svc.history0
                       \o <<Turn(svc.query, "user"),
                            Turn(svc.result.response, "assistant")>>
                  ELSE svc.history0

\* A call with a callback succeeded on a history that held an exchange, and
\* the history grew by the query and its response.
C29_Witness ==
    /\ svc.pc = "done"
    /\ svc.callback
    /\ svc.result.success
    /\ svc.history0 # <<>>
    /\ Len(svc.conversation_history) = Len(svc.history0) + 2
    /\ svc.events[2].event_type = "processing_complete"

\* C30: frago_error is emitted for a process_frago request only when the
\* agent run for the FRAGO was made and failed.
C30_FragoErrorOnlyOnAgentFailure ==
    \A t \in Workers :
        Count(frago.emitted[t], "frago_error") > 0 =>
            frago.agent_run[t] = "failed"

====
